---- MODULE Spec2Model ----
(***************************************************************************)
(* Vertex Block Descent integrator (pbat::gpu::vbd::VbdImpl).              *)
(*                                                                         *)
(* The host object owns device buffers; the setters write them; Step       *)
(* enqueues copies and kernels on one CUDA stream and waits for it.  The   *)
(* device executes the stream in order; the threads of one kernel run in   *)
(* any interleaving.  Scalars (GpuScalar) are modelled as integers on a    *)
(* fixed grid, divisions round down; omega and rho are exact fractions.    *)
(* Indices stored in buffers are 0-based as in the source; sequences are   *)
(* 1-based, so buffer entry i is buf[i+1].                                  *)
(***************************************************************************)
EXTENDS Integers, Sequences, FiniteSets, TLC

(***************************************************************************)
(* Bounds of the exploration                                               *)
(***************************************************************************)
MaxSetCalls == 1
MaxSteps == 1
MaxIterations == 3
MaxSubsteps == 2
MaxCells == 2

(***************************************************************************)
(* Program constants                                                       *)
(***************************************************************************)
Dims == 3
VerticesPerTet == 4
DefaultMass == 1000
mMaxCollidingTrianglesPerVertex == 8
DefaultDetHZero == 1
mRayleighDamping == 0

(***************************************************************************)
(* Small vectors (pbat::math::linalg::mini) and fractions                  *)
(***************************************************************************)
Axes == 1..Dims
Zero3 == [d \in Axes |-> 0]
VAdd(a, b) == [d \in Axes |-> a[d] + b[d]]
VSub(a, b) == [d \in Axes |-> a[d] - b[d]]
VScale(c, a) == [d \in Axes |-> c * a[d]]
VDiv(a, c) == [d \in Axes |-> a[d] \div c]
VDot(a, b) == a[1] * b[1] + a[2] * b[2] + a[3] * b[3]

\* a fraction is <<numerator, denominator>> with denominator > 0
Abs(n) == IF n < 0 THEN 0 - n ELSE n
RECURSIVE Gcd(_, _)
Gcd(a, b) == IF b = 0 THEN a ELSE Gcd(b, a % b)
Frac(n, d) ==
    LET g == Gcd(Abs(n), Abs(d))
    IN  IF d < 0 THEN <<(0 - n) \div g, (0 - d) \div g>> ELSE <<n \div g, d \div g>>
FracMul(a, b) == Frac(a[1] * b[1], a[2] * b[2])
FracLess(a, b) == a[1] * b[2] < b[1] * a[2]
FracEq(a, b) == a[1] * b[2] = b[1] * a[2]
\* c - a*b for an integer c
FracIntMinus(c, a) == Frac(c * a[2] - a[1], a[2])
\* c / a for an integer c
FracIntOver(c, a) == Frac(c * a[2], a[1])
\* omega * v for an integer v, rounded down to the grid
FracTimesInt(a, v) == (a[1] * v) \div a[2]

Constant(n, v) == [i \in 1..n |-> v]
At(buf, i) == buf[i + 1]
Range(s) == {s[i] : i \in DOMAIN s}

(***************************************************************************)
(* The mesh handed to the constructor: two tetrahedra sharing a face.      *)
(***************************************************************************)
Xin == << <<0, 0, 0>>, <<1, 0, 0>>, <<0, 1, 0>>, <<0, 0, 1>>, <<1, 1, 0>> >>
Tin == << <<0, 1, 2, 3>>, <<1, 2, 3, 4>> >>
nVertices == Len(Xin)
nElements == Len(Tin)

(***************************************************************************)
(* Values the callers hand to the setters and to Step                      *)
(***************************************************************************)
UninitValues == {0, 3}
Gravity == <<0, 0, -10>>
PositionInputs == {[Xin EXCEPT ![5] = <<1, 1, 1>>], Xin \o << <<2, 2, 2>> >>}
VelocityInputs == {Constant(nVertices, <<0, 0, 2>>), Constant(nVertices + 1, Zero3)}
AccelerationInputs == {Constant(nVertices, Gravity), Constant(nVertices - 1, Gravity)}
MassInputs == {Constant(nVertices, 500), Constant(nVertices + 1, 500)}
MeshQuadratureWeights == Constant(nElements, 1)
QuadratureInputs == {MeshQuadratureWeights, Constant(nElements + 1, 1)}
\* 4 x 3|E| matrix of shape-function gradients, column-major: entry e*12 + d*4 + ilocal
MeshShapeFunctionGradients ==
    << -1, 1, 0, 0,   -1, 0, 1, 0,   -1, 0, 0, 1,
        0, -1, 0, 1,  -1, 0, 0, 1,   -1, -1, 1, 1 >>
GradientInputs == {MeshShapeFunctionGradients, Tail(MeshShapeFunctionGradients)}
\* 2 x |E| matrix (mu, lambda) per element, column-major
MeshLameCoefficients == <<20, 10, 10, 10>>
LameInputs == {MeshLameCoefficients, <<20, 10>>}
DetHZeroInputs == {200000}
\* compressed vertex -> (tetrahedron, local vertex) adjacency of Tin
MeshPrefix == <<0, 1, 3, 5, 7, 8>>
MeshNeighbours == <<0, 0, 1, 0, 1, 0, 1, 1>>
MeshLocal == <<0, 1, 0, 2, 1, 3, 2, 3>>
AdjacencyInputs ==
    { <<MeshPrefix, MeshNeighbours, MeshLocal>>,
      <<MeshPrefix, MeshNeighbours, Tail(MeshLocal)>>,
      <<Tail(MeshPrefix), MeshNeighbours, MeshLocal>>,
      <<MeshPrefix, MeshNeighbours \o <<0>>, MeshLocal \o <<0>> >> }
\* vertices 0 and 4 share no tetrahedron; vertices 0 and 1 share tetrahedron 0
ColouredPartitions == << <<0, 4>>, <<1>>, <<2>>, <<3>> >>
SharingPartitions == << <<0, 1>>, <<2>>, <<3>>, <<4>> >>
ShortPartitions == << <<0, 4>>, <<1>> >>
PartitionInputs == {ColouredPartitions, SharingPartitions, ShortPartitions}
DtInputs == {12}
IterationInputs == 0..MaxIterations
SubstepInputs == 1..MaxSubsteps
\* rho as a fraction over 2: -1/2, 0, 1/2, 1, 3/2
RhoInputs == {<<-1, 2>>, <<0, 2>>, <<1, 2>>, <<2, 2>>, <<3, 2>>}

VARIABLES
    X, mPositionsAtT, mInertialTargetPositions,
    mChebyshevPositionsM2, mChebyshevPositionsM1,
    mVelocitiesAtT, mVelocities, mExternalAcceleration, mMass,
    mQuadratureWeights, mShapeFunctionGradients, mLameCoefficients, mDetHZero,
    mVertexTetrahedronPrefix, mVertexTetrahedronNeighbours,
    mVertexTetrahedronLocalVertexIndices, mPartitions,
    mCollidingTriangles, mCollidingTriangleCount,
    pc, args, called, result, bUseChebyshevAcceleration, nSetCalls, nSteps,
    stream, taskDone, taskVal,
    log, xAtLaunch, raceSeen, xSweep, xAccel, chebAtCall, lastCall, vStart,
    simplex, morton, boxB, boxE, overlaps, bvhCalled, bvhCount, bvhResult, nLaunches, nBvhCalls,
    element, meshC, meshPc, meshCell, meshNode, nodeMap, nodes, E, meshX

kinematics == <<X, mPositionsAtT, mInertialTargetPositions, mChebyshevPositionsM2,
                mChebyshevPositionsM1, mVelocitiesAtT, mVelocities>>
material == <<mExternalAcceleration, mMass, mQuadratureWeights,
              mShapeFunctionGradients, mLameCoefficients, mDetHZero>>
adjacency == <<mVertexTetrahedronPrefix, mVertexTetrahedronNeighbours,
               mVertexTetrahedronLocalVertexIndices>>
collisions == <<mCollidingTriangles, mCollidingTriangleCount>>
buffers == <<kinematics, material, adjacency, mPartitions, collisions>>
host == <<pc, args, called, result, bUseChebyshevAcceleration, nSetCalls, nSteps>>
device == <<stream, taskDone, taskVal>>
ghost == <<log, xAtLaunch, raceSeen, xSweep, xAccel, chebAtCall, lastCall, vStart>>
vbd == <<buffers, host, device, ghost>>
\* pbat::gpu::geometry::BvhQueryImpl: its buffers, and the call made on it last
bvhBuffers == <<simplex, morton, boxB, boxE, overlaps>>
bvh == <<bvhBuffers, bvhCalled, bvhCount, bvhResult, nLaunches, nBvhCalls>>
fem == <<element, meshC, meshPc, meshCell, meshNode, nodeMap, nodes, E, meshX>>
vars == <<vbd, bvh, fem>>

NoArgs == <<>>

(***************************************************************************)
(* pbat::gpu::geometry::BvhQueryImpl.  The constructor allocates simplex,  *)
(* morton, b and e for nPrimitives boxes and overlaps for nOverlaps pairs  *)
(* and writes none of them.  Simplices are edges of the points Xin.        *)
(***************************************************************************)
nPrimitives == 2
nOverlaps == 2
MaxBvhCalls == 2
EdgeInputs == {<<0, 1>>, <<2, 3>>, <<3, 4>>}
SimplexInputs == UNION {[1..m -> EdgeInputs] : m \in 0..(nPrimitives + 1)}
ExpansionInputs == {0, 1}
\* the leaves of the hierarchy handed to DetectOverlaps: boxes and simplex ids
BvhInputs ==
    { [b |-> << <<0, 0, 0>>, <<1, 1, 0>> >>, e |-> << <<1, 1, 1>>, <<2, 2, 1>> >>,
       simplex |-> <<0, 1>>],
      [b |-> << <<0, 0, 0>> >>, e |-> << <<0, 1, 0>> >>, simplex |-> <<0>>] }

\* Mesh() = default: no nodes and no elements
MeshInit ==
    /\ element = "none"
    /\ meshC = <<>>
    /\ meshPc = "idle"
    /\ meshCell = 0
    /\ meshNode = 0
    /\ nodeMap = <<>>
    /\ nodes = <<>>
    /\ E = <<>>
    /\ meshX = <<>>

BvhQueryImplInit(junk) ==
    /\ simplex = Constant(nPrimitives, junk)
    /\ morton = Constant(nPrimitives, junk)
    /\ boxB = Constant(nPrimitives, [d \in Axes |-> junk])
    /\ boxE = Constant(nPrimitives, [d \in Axes |-> junk])
    /\ overlaps = {}
    /\ bvhCalled = "BvhQueryImpl"
    /\ bvhCount = 0
    /\ bvhResult = "none"
    /\ nLaunches = 0
    /\ nBvhCalls = 0

(***************************************************************************)
(* VbdImpl::VbdImpl: buffers are sized from the mesh; the constructor body *)
(* writes mPositionsAtT, both velocity buffers, the external acceleration  *)
(* and the mass.  What an allocated but unwritten buffer holds is not      *)
(* fixed by the source: every cell of such a buffer holds one value of     *)
(* UninitValues.                                                           *)
(***************************************************************************)
Init ==
    \E junk \in UninitValues :
        /\ X = Xin
        /\ mPositionsAtT = Xin
        /\ mInertialTargetPositions = Constant(nVertices, [d \in Axes |-> junk])
        /\ mChebyshevPositionsM2 = Constant(nVertices, [d \in Axes |-> junk])
        /\ mChebyshevPositionsM1 = Constant(nVertices, [d \in Axes |-> junk])
        /\ mVelocitiesAtT = Constant(nVertices, Zero3)
        /\ mVelocities = Constant(nVertices, Zero3)
        /\ mExternalAcceleration = Constant(nVertices, Zero3)
        /\ mMass = Constant(nVertices, DefaultMass)
        /\ mQuadratureWeights = Constant(nElements, junk)
        /\ mShapeFunctionGradients = Constant(nElements * VerticesPerTet * Dims, junk)
        /\ mLameCoefficients = Constant(2 * nElements, junk)
        /\ mDetHZero = DefaultDetHZero
        /\ mVertexTetrahedronPrefix = Constant(nVertices + 1, junk)
        /\ mVertexTetrahedronNeighbours = <<>>
        /\ mVertexTetrahedronLocalVertexIndices = <<>>
        /\ mPartitions = <<>>
        /\ mCollidingTriangles =
               Constant(mMaxCollidingTrianglesPerVertex * nVertices, junk)
        /\ mCollidingTriangleCount = Constant(nVertices, junk)
        /\ pc = "idle"
        /\ args = NoArgs
        /\ called = "VbdImpl"
        /\ result = "none"
        /\ bUseChebyshevAcceleration = FALSE
        /\ nSetCalls = 0
        /\ nSteps = 0
        /\ stream = <<>>
        /\ taskDone = {}
        /\ taskVal = <<>>
        /\ log = <<>>
        /\ vStart = <<>>
        /\ xAtLaunch = Xin
        /\ raceSeen = FALSE
        /\ xSweep = <<>>
        /\ xAccel = <<>>
        /\ chebAtCall = <<mChebyshevPositionsM2, mChebyshevPositionsM1>>
        /\ lastCall = [iterations |-> 0, substeps |-> 0, groups |-> 0]
        /\ BvhQueryImplInit(junk)
        /\ MeshInit

(***************************************************************************)
(* common::ToBuffer: copies a host matrix into a device buffer of the same *)
(* size and refuses any other size with std::invalid_argument before it    *)
(* copies anything.                                                        *)
(***************************************************************************)
ToBufferThrows(A, buf) == Len(A) # Len(buf)
ToBuffer(A, buf) == IF ToBufferThrows(A, buf) THEN buf ELSE A

CanCallSetter == pc = "idle" /\ nSetCalls < MaxSetCalls
Returns(f, r) ==
    /\ called' = f /\ result' = r /\ nSetCalls' = nSetCalls + 1
    /\ UNCHANGED <<pc, args, bUseChebyshevAcceleration, nSteps, device, ghost,
                   collisions, bvh, fem, vStart>>
Outcome(A, buf) == IF ToBufferThrows(A, buf) THEN "invalid_argument" ELSE "ok"

SetPositions(A) ==
    /\ CanCallSetter
    /\ X' = ToBuffer(A, X)
    /\ Returns("SetPositions", Outcome(A, X))
    /\ UNCHANGED <<mPositionsAtT, mInertialTargetPositions, mChebyshevPositionsM2,
                   mChebyshevPositionsM1, mVelocitiesAtT, mVelocities,
                   material, adjacency, mPartitions>>

SetVelocities(A) ==
    /\ CanCallSetter
    /\ mVelocities' = ToBuffer(A, mVelocities)
    /\ Returns("SetVelocities", Outcome(A, mVelocities))
    /\ UNCHANGED <<X, mPositionsAtT, mInertialTargetPositions, mChebyshevPositionsM2,
                   mChebyshevPositionsM1, mVelocitiesAtT,
                   material, adjacency, mPartitions>>

SetExternalAcceleration(A) ==
    /\ CanCallSetter
    /\ mExternalAcceleration' = ToBuffer(A, mExternalAcceleration)
    /\ Returns("SetExternalAcceleration", Outcome(A, mExternalAcceleration))
    /\ UNCHANGED <<kinematics, mMass, mQuadratureWeights, mShapeFunctionGradients,
                   mLameCoefficients, mDetHZero, adjacency, mPartitions>>

SetMass(A) ==
    /\ CanCallSetter
    /\ mMass' = ToBuffer(A, mMass)
    /\ Returns("SetMass", Outcome(A, mMass))
    /\ UNCHANGED <<kinematics, mExternalAcceleration, mQuadratureWeights,
                   mShapeFunctionGradients, mLameCoefficients, mDetHZero,
                   adjacency, mPartitions>>

SetQuadratureWeights(A) ==
    /\ CanCallSetter
    /\ mQuadratureWeights' = ToBuffer(A, mQuadratureWeights)
    /\ Returns("SetQuadratureWeights", Outcome(A, mQuadratureWeights))
    /\ UNCHANGED <<kinematics, mExternalAcceleration, mMass,
                   mShapeFunctionGradients, mLameCoefficients, mDetHZero,
                   adjacency, mPartitions>>

SetShapeFunctionGradients(A) ==
    /\ CanCallSetter
    /\ mShapeFunctionGradients' = ToBuffer(A, mShapeFunctionGradients)
    /\ Returns("SetShapeFunctionGradients", Outcome(A, mShapeFunctionGradients))
    /\ UNCHANGED <<kinematics, mExternalAcceleration, mMass, mQuadratureWeights,
                   mLameCoefficients, mDetHZero, adjacency, mPartitions>>

SetLameCoefficients(A) ==
    /\ CanCallSetter
    /\ mLameCoefficients' = ToBuffer(A, mLameCoefficients)
    /\ Returns("SetLameCoefficients", Outcome(A, mLameCoefficients))
    /\ UNCHANGED <<kinematics, mExternalAcceleration, mMass, mQuadratureWeights,
                   mShapeFunctionGradients, mDetHZero, adjacency, mPartitions>>

SetNumericalZeroForHessianDeterminant(zero) ==
    /\ CanCallSetter
    /\ mDetHZero' = zero
    /\ Returns("SetNumericalZeroForHessianDeterminant", "ok")
    /\ UNCHANGED <<kinematics, mExternalAcceleration, mMass, mQuadratureWeights,
                   mShapeFunctionGradients, mLameCoefficients, adjacency, mPartitions>>

\* common::Buffer::Resize: the first cells keep their contents
Resize(buf, n) == [i \in 1..n |-> IF i <= Len(buf) THEN buf[i] ELSE 0]

\* the setter without its neighbours/ilocal size test
SetVertexTetrahedronAdjacencyList_Unchecked(GVTp, GVTn, GVTilocal) ==
    /\ CanCallSetter
    /\ IF ToBufferThrows(GVTp, mVertexTetrahedronPrefix)
       THEN /\ Returns("SetVertexTetrahedronAdjacencyList", "invalid_argument")
            /\ UNCHANGED adjacency
       ELSE /\ mVertexTetrahedronPrefix' = ToBuffer(GVTp, mVertexTetrahedronPrefix)
            /\ mVertexTetrahedronNeighbours' =
                   ToBuffer(GVTn, Resize(mVertexTetrahedronNeighbours, Len(GVTn)))
            /\ mVertexTetrahedronLocalVertexIndices' =
                   ToBuffer(GVTilocal,
                            Resize(mVertexTetrahedronLocalVertexIndices, Len(GVTilocal)))
            /\ Returns("SetVertexTetrahedronAdjacencyList", "ok")
    /\ UNCHANGED <<kinematics, material, mPartitions>>

\* the setter copying the prefix array before its neighbours/ilocal size test
SetVertexTetrahedronAdjacencyList_PrefixFirst(GVTp, GVTn, GVTilocal) ==
    /\ CanCallSetter
    /\ IF ToBufferThrows(GVTp, mVertexTetrahedronPrefix)
       THEN /\ Returns("SetVertexTetrahedronAdjacencyList", "invalid_argument")
            /\ UNCHANGED adjacency
       ELSE IF Len(GVTn) # Len(GVTilocal)
       THEN /\ mVertexTetrahedronPrefix' = ToBuffer(GVTp, mVertexTetrahedronPrefix)
            /\ Returns("SetVertexTetrahedronAdjacencyList", "invalid_argument")
            /\ UNCHANGED <<mVertexTetrahedronNeighbours,
                           mVertexTetrahedronLocalVertexIndices>>
       ELSE /\ mVertexTetrahedronPrefix' = ToBuffer(GVTp, mVertexTetrahedronPrefix)
            /\ mVertexTetrahedronNeighbours' =
                   ToBuffer(GVTn, Resize(mVertexTetrahedronNeighbours, Len(GVTn)))
            /\ mVertexTetrahedronLocalVertexIndices' =
                   ToBuffer(GVTilocal,
                            Resize(mVertexTetrahedronLocalVertexIndices, Len(GVTilocal)))
            /\ Returns("SetVertexTetrahedronAdjacencyList", "ok")
    /\ UNCHANGED <<kinematics, material, mPartitions>>

SetVertexTetrahedronAdjacencyList(GVTp, GVTn, GVTilocal) ==
    /\ CanCallSetter
    /\ IF Len(GVTn) # Len(GVTilocal)
       THEN /\ Returns("SetVertexTetrahedronAdjacencyList", "invalid_argument")
            /\ UNCHANGED adjacency
       ELSE IF ToBufferThrows(GVTp, mVertexTetrahedronPrefix)
       THEN /\ Returns("SetVertexTetrahedronAdjacencyList", "invalid_argument")
            /\ UNCHANGED adjacency
       ELSE /\ mVertexTetrahedronPrefix' = ToBuffer(GVTp, mVertexTetrahedronPrefix)
            /\ mVertexTetrahedronNeighbours' =
                   ToBuffer(GVTn, Resize(mVertexTetrahedronNeighbours, Len(GVTn)))
            /\ mVertexTetrahedronLocalVertexIndices' =
                   ToBuffer(GVTilocal,
                            Resize(mVertexTetrahedronLocalVertexIndices, Len(GVTilocal)))
            /\ Returns("SetVertexTetrahedronAdjacencyList", "ok")
    /\ UNCHANGED <<kinematics, material, mPartitions>>

\* the setter storing the groups last to first
SetVertexPartitions_Reversed(partitions) ==
    /\ CanCallSetter
    /\ mPartitions' = [p \in 1..Len(partitions) |->
                          ToBuffer(partitions[Len(partitions) + 1 - p],
                                   Resize(<<>>, Len(partitions[Len(partitions) + 1 - p])))]
    /\ Returns("SetVertexPartitions", "ok")
    /\ UNCHANGED <<kinematics, material, adjacency>>

SetVertexPartitions(partitions) ==
    /\ CanCallSetter
    /\ mPartitions' = [p \in 1..Len(partitions) |->
                          ToBuffer(partitions[p], Resize(<<>>, Len(partitions[p])))]
    /\ Returns("SetVertexPartitions", "ok")
    /\ UNCHANGED <<kinematics, material, adjacency>>

\* the getters return the buffers themselves
GetVelocity == mVelocities
GetExternalAcceleration == mExternalAcceleration
GetMass == mMass
GetShapeFunctionGradients == mShapeFunctionGradients
GetLameCoefficients == mLameCoefficients
GetPartitions == mPartitions

(***************************************************************************)
(* The arrangement of TEST_CASE("[gpu][vbd] Vbd"): right after             *)
(* construction the external acceleration, the quadrature weights, the     *)
(* shape-function gradients, the Lame coefficients, the adjacency and the  *)
(* partitions of the mesh are set, in that order.                          *)
(***************************************************************************)
TestArrange ==
    /\ pc = "idle" /\ nSetCalls = 0 /\ nSteps = 0 /\ result = "none"
    /\ mExternalAcceleration' = ToBuffer(Constant(nVertices, Gravity), mExternalAcceleration)
    /\ mQuadratureWeights' = ToBuffer(MeshQuadratureWeights, mQuadratureWeights)
    /\ mShapeFunctionGradients' = ToBuffer(MeshShapeFunctionGradients, mShapeFunctionGradients)
    /\ mLameCoefficients' = ToBuffer(MeshLameCoefficients, mLameCoefficients)
    /\ mVertexTetrahedronPrefix' = ToBuffer(MeshPrefix, mVertexTetrahedronPrefix)
    /\ mVertexTetrahedronNeighbours' = MeshNeighbours
    /\ mVertexTetrahedronLocalVertexIndices' = MeshLocal
    /\ mPartitions' = ColouredPartitions
    /\ called' = "TestArrange"
    /\ result' = "ok"
    /\ UNCHANGED <<kinematics, mMass, mDetHZero, pc, args, bUseChebyshevAcceleration,
                   nSetCalls, nSteps, device, ghost>>
    /\ UNCHANGED <<collisions, bvh, fem, vStart>>

(***************************************************************************)
(* pbat::sim::vbd::kernels: the per-vertex device functions                *)
(***************************************************************************)
mInitializationStrategy == "AdaptiveVbd"

InertialTarget(xt, vt, aext, dt, dt2) ==
    VAdd(xt, VAdd(VScale(dt, vt), VScale(dt2, aext)))

Clamp(v, lo, hi) == IF v < lo THEN lo ELSE IF v > hi THEN hi ELSE v

InitialPositionsForSolve(xt, vtm1, vt, aext, dt, dt2, strategy) ==
    CASE strategy = "Position" -> xt
      [] strategy = "Inertia" -> VAdd(xt, VScale(dt, vt))
      [] strategy = "KineticEnergyMinimum" ->
             VAdd(xt, VAdd(VScale(dt, vt), VScale(dt2, aext)))
      [] OTHER ->
             LET dvdt == VDiv(VSub(vt, vtm1), dt)
                 aext2 == VDot(aext, aext)
                 along == Clamp(VDot(dvdt, aext), 0, aext2)
             IN  IF aext2 = 0
                 THEN VAdd(xt, VScale(dt, vt))
                 ELSE VAdd(xt, VAdd(VScale(dt, vt),
                                    VDiv(VScale(dt2 * along, aext), aext2)))

IntegrateVelocity(xt, x, dt) == VDiv(VSub(x, xt), dt)

\* omega = 1 for k = 0, 2/(2 - rho^2) for k = 1, 4/(4 - rho^2 omega) afterwards
ChebyshevOmega(k, rho2, omega) ==
    IF k = 0 THEN <<1, 1>>
    ELSE IF k = 1 THEN FracIntOver(2, FracIntMinus(2, rho2))
    ELSE FracIntOver(4, FracIntMinus(4, FracMul(rho2, omega)))

\* acts on its three arguments in place; the result is their new values
ChebyshevUpdate(k, omega, xkm2, xkm1, xk) ==
    LET xkNew == IF k > 1
                 THEN VAdd([d \in Axes |-> FracTimesInt(omega, xk[d] - xkm2[d])], xkm2)
                 ELSE xk
    IN  [xkm2 |-> xkm1, xkm1 |-> xkNew, xk |-> xkNew]

\* a device read: a cell outside the buffer yields no particular value
ReadAt(buf, i) == IF i + 1 \in DOMAIN buf THEN buf[i + 1] ELSE 0

\* the (tetrahedron, local vertex) entries of vertex i in the adjacency buffers
IncidentEntries(i) ==
    {n \in 0..(Len(mVertexTetrahedronNeighbours) - 1) :
        /\ ReadAt(mVertexTetrahedronPrefix, i) <= n
        /\ n < ReadAt(mVertexTetrahedronPrefix, i + 1)}
ElementOf(n) == ReadAt(mVertexTetrahedronNeighbours, n)
LocalOf(n) == ReadAt(mVertexTetrahedronLocalVertexIndices, n)
ElementVertex(e, j) == IF e + 1 \in DOMAIN Tin THEN Tin[e + 1][j + 1] ELSE 0
Locals == 0..(VerticesPerTet - 1)

\* positions a thread solving vertex i reads: its own and those of every
\* vertex of its incident tetrahedra
PositionsRead(i) ==
    {i} \cup {ElementVertex(ElementOf(n), j) : n \in IncidentEntries(i), j \in Locals}

GP(e, j, b) == ReadAt(mShapeFunctionGradients,
                      e * VerticesPerTet * Dims + (b - 1) * VerticesPerTet + j)
Mu(e) == ReadAt(mLameCoefficients, 2 * e)
Wg(e) == ReadAt(mQuadratureWeights, e)
PosAt(x, i) == IF i + 1 \in DOMAIN x THEN x[i + 1] ELSE Zero3

\* deformation gradient of tetrahedron e: F[a][b] = sum_j x_j[a] * GP_j[b]
DeformationGradient(e, x) ==
    [a \in Axes |-> [b \in Axes |->
        PosAt(x, ElementVertex(e, 0))[a] * GP(e, 0, b)
      + PosAt(x, ElementVertex(e, 1))[a] * GP(e, 1, b)
      + PosAt(x, ElementVertex(e, 2))[a] * GP(e, 2, b)
      + PosAt(x, ElementVertex(e, 3))[a] * GP(e, 3, b)]]

Delta(a, b) == IF a = b THEN 1 ELSE 0

\* the elastic energy mu/2 |F - I|^2 w.r.t. the local vertex j of tetrahedron e
ElasticGradient(e, j, x) ==
    LET F == DeformationGradient(e, x)
    IN  [a \in Axes |-> Wg(e) * Mu(e) *
            ( (F[a][1] - Delta(a, 1)) * GP(e, j, 1)
            + (F[a][2] - Delta(a, 2)) * GP(e, j, 2)
            + (F[a][3] - Delta(a, 3)) * GP(e, j, 3) )]
ElasticHessian(e, j) ==
    Wg(e) * Mu(e) * (GP(e, j, 1) * GP(e, j, 1) + GP(e, j, 2) * GP(e, j, 2)
                     + GP(e, j, 3) * GP(e, j, 3))

RECURSIVE SumGradient(_, _)
SumGradient(entries, x) ==
    IF entries = {} THEN Zero3
    ELSE LET n == CHOOSE m \in entries : TRUE
         IN  VAdd(ElasticGradient(ElementOf(n), LocalOf(n), x),
                  SumGradient(entries \ {n}, x))
RECURSIVE SumHessian(_)
SumHessian(entries) ==
    IF entries = {} THEN 0
    ELSE LET n == CHOOSE m \in entries : TRUE
         IN  ElasticHessian(ElementOf(n), LocalOf(n)) + SumHessian(entries \ {n})

\* kernels::MinimizeBackwardEuler for vertex i on positions x: one Newton step
\* of the inertial + elastic energy; the Hessian is h * I, its determinant h^3
MinimizeBackwardEuler(i, x, dt, dt2, detHZero, kD) ==
    LET mdt2 == ReadAt(mMass, i) \div dt2
        damp == (dt + kD) \div dt
        g == VAdd(VScale(mdt2, VSub(PosAt(x, i), PosAt(mInertialTargetPositions, i))),
                  VScale(damp, SumGradient(IncidentEntries(i), x)))
        h == mdt2 + damp * SumHessian(IncidentEntries(i))
    IN  IF h * h * h < detHZero
        THEN [solved |-> FALSE, x |-> PosAt(x, i)]
        ELSE [solved |-> TRUE, x |-> VAdd(PosAt(x, i), VDiv(VScale(-1, g), h))]

(***************************************************************************)
(* VbdImpl::Step, host side.  Every operation goes to mStream; lambdas and *)
(* the kernel argument bdf capture scalars by value and buffers by         *)
(* pointer.  Between two enqueues the host touches only its own locals, so *)
(* the enqueues of one call are taken in one step, in program order.       *)
(***************************************************************************)
\* bdf built with the default threshold, whatever the setter stored
Op_DefaultThreshold(kind, s, k, p, d, omega, sdt) ==
    [kind |-> kind, s |-> s, k |-> k, p |-> p, d |-> d, omega |-> omega,
     dt |-> sdt, dt2 |-> sdt * sdt, detHZero |-> DefaultDetHZero, kD |-> mRayleighDamping]

Op(kind, s, k, p, d, omega, sdt) ==
    [kind |-> kind, s |-> s, k |-> k, p |-> p, d |-> d, omega |-> omega,
     dt |-> sdt, dt2 |-> sdt * sdt, detHZero |-> mDetHZero, kD |-> mRayleighDamping]

\* the test with rho = 0 let through
UseChebyshevAcceleration_ZeroIncluded(rho) ==
    (~FracLess(rho, <<0, 1>>)) /\ FracLess(rho, <<1, 1>>)

UseChebyshevAcceleration(rho) == FracLess(<<0, 1>>, rho) /\ FracLess(rho, <<1, 1>>)

\* every iteration starting from the weight of iteration 0
OmegaAt_NoCarry(k, rho2) == ChebyshevOmega(k, rho2, <<1, 1>>)

\* the value of omega after the assignment of line 163 in iteration k; omega is
\* declared zero at the start of each substep
RECURSIVE OmegaAt(_, _)
OmegaAt(k, rho2) ==
    ChebyshevOmega(k, rho2, IF k = 0 THEN <<0, 1>> ELSE OmegaAt(k - 1, rho2))

RECURSIVE Concat(_)
Concat(ss) == IF ss = <<>> THEN <<>> ELSE Head(ss) \o Concat(Tail(ss))

\* the groups launched last to first
PartitionLaunches_Reversed(s, k, sdt) ==
    [p \in 1..Len(mPartitions) |->
        Op("Bcd", s, k, Len(mPartitions) + 1 - p, 0, <<0, 1>>, sdt)]

\* for (auto& partition : mPartitions): one kernel launch per group
PartitionLaunches(s, k, sdt) ==
    [p \in 1..Len(mPartitions) |-> Op("Bcd", s, k, p, 0, <<0, 1>>, sdt)]

IterationOps(s, k, sdt, rho2, bUse) ==
    PartitionLaunches(s, k, sdt)
    \o (IF bUse THEN <<Op("Chebyshev", s, k, 0, 0, OmegaAt(k, rho2), sdt)>> ELSE <<>>)

\* the loop leaving after two iterations
OuterIterations_EarlyExit(iterations) ==
    IF iterations > 2 THEN 2 ELSE IF iterations > 0 THEN iterations ELSE 0

\* a loop that tests its condition after the body
OuterIterations_AtLeastOnce(iterations) == IF iterations > 1 THEN iterations ELSE 1

\* for (auto k = 0; k < iterations; ++k): the number of passes
OuterIterations(iterations) == IF iterations > 0 THEN iterations ELSE 0

\* the snapshot of the positions taken after the initial guess
SubstepOps_LateSnapshot(s, iterations, sdt, rho2, bUse) ==
    <<Op("InertialTarget", s, 0, 0, 0, <<0, 1>>, sdt)>>
    \o <<Op("InitialGuess", s, 0, 0, 0, <<0, 1>>, sdt)>>
    \o [d \in Axes |-> Op("CopyPositions", s, 0, 0, d, <<0, 1>>, sdt)]
    \o Concat([kk \in 1..OuterIterations(iterations) |->
                   IterationOps(s, kk - 1, sdt, rho2, bUse)])
    \o [d \in Axes |-> Op("CopyVelocities", s, 0, 0, d, <<0, 1>>, sdt)]
    \o <<Op("IntegrateVelocity", s, 0, 0, 0, <<0, 1>>, sdt)>>

\* the previous velocities copied after the velocity update
SubstepOps_CopyAfterUpdate(s, iterations, sdt, rho2, bUse) ==
    [d \in Axes |-> Op("CopyPositions", s, 0, 0, d, <<0, 1>>, sdt)]
    \o <<Op("InertialTarget", s, 0, 0, 0, <<0, 1>>, sdt)>>
    \o <<Op("InitialGuess", s, 0, 0, 0, <<0, 1>>, sdt)>>
    \o Concat([kk \in 1..OuterIterations(iterations) |->
                   IterationOps(s, kk - 1, sdt, rho2, bUse)])
    \o <<Op("IntegrateVelocity", s, 0, 0, 0, <<0, 1>>, sdt)>>
    \o [d \in Axes |-> Op("CopyVelocities", s, 0, 0, d, <<0, 1>>, sdt)]

SubstepOps(s, iterations, sdt, rho2, bUse) ==
    [d \in Axes |-> Op("CopyPositions", s, 0, 0, d, <<0, 1>>, sdt)]
    \o <<Op("InertialTarget", s, 0, 0, 0, <<0, 1>>, sdt)>>
    \o <<Op("InitialGuess", s, 0, 0, 0, <<0, 1>>, sdt)>>
    \o Concat([kk \in 1..OuterIterations(iterations) |->
                   IterationOps(s, kk - 1, sdt, rho2, bUse)])
    \o [d \in Axes |-> Op("CopyVelocities", s, 0, 0, d, <<0, 1>>, sdt)]
    \o <<Op("IntegrateVelocity", s, 0, 0, 0, <<0, 1>>, sdt)>>

StepOps(dt, iterations, substeps, rho) ==
    LET sdt == dt \div substeps
        bUse == UseChebyshevAcceleration(rho)
    IN  Concat([ss \in 1..substeps |->
                   SubstepOps(ss - 1, iterations, sdt, FracMul(rho, rho), bUse)])

StepCall(dt, iterations, substeps, rho) ==
    /\ pc = "idle" /\ nSteps < MaxSteps
    /\ pc' = "entered"
    /\ args' = [dt |-> dt, iterations |-> iterations, substeps |-> substeps, rho |-> rho]
    /\ called' = "Step"
    /\ UNCHANGED <<buffers, result, bUseChebyshevAcceleration, nSetCalls, nSteps,
                   device, ghost>>
    /\ UNCHANGED <<collisions, bvh, fem, vStart>>

StepEnqueue ==
    /\ pc = "entered"
    /\ bUseChebyshevAcceleration' = UseChebyshevAcceleration(args.rho)
    /\ stream' = stream \o StepOps(args.dt, args.iterations, args.substeps, args.rho)
    /\ pc' = "sync"
    /\ args' = NoArgs
    /\ log' = <<>>
    /\ xAtLaunch' = X
    /\ xSweep' = <<>>
    /\ xAccel' = <<>>
    /\ chebAtCall' = <<mChebyshevPositionsM2, mChebyshevPositionsM1>>
    /\ lastCall' = [iterations |-> args.iterations, substeps |-> args.substeps,
                    groups |-> Len(mPartitions)]
    /\ raceSeen' = FALSE
    /\ UNCHANGED <<buffers, called, result, nSetCalls, nSteps, taskDone, taskVal>>
    /\ UNCHANGED <<collisions, bvh, fem, vStart>>

\* Step returning without waiting for the stream
SynchronizeReturns_NoWait == TRUE

\* mStream.synchronize() returns once the stream has drained
SynchronizeReturns == stream = <<>>

StepReturn ==
    /\ pc = "sync"
    /\ SynchronizeReturns
    /\ pc' = "idle"
    /\ result' = "ok"
    /\ nSteps' = nSteps + 1
    /\ UNCHANGED <<buffers, args, called, bUseChebyshevAcceleration, nSetCalls, device,
                   ghost>>
    /\ UNCHANGED <<collisions, bvh, fem, vStart>>

(***************************************************************************)
(* The device.  A stream runs its operations one at a time in the order    *)
(* they were enqueued; the threads of the running kernel take their steps  *)
(* in any order.  taskDone holds the threads of the running operation that *)
(* have finished; taskVal holds, for the threads of a MinimizeBackwardEuler*)
(* launch, what each has computed and not yet written.  The remaining      *)
(* variables record the run for the properties below: log lists the        *)
(* operations completed since the last Step call, xAtLaunch the positions  *)
(* when the running operation started, xSweep and xAccel the positions     *)
(* before and after each Chebyshev phase of the current substep, raceSeen  *)
(* whether a thread read a position that an unfinished thread of the same  *)
(* launch writes, chebAtCall the Chebyshev history and lastCall the counts *)
(* at the last Step call, vStart the velocities at the start of every      *)
(* substep since construction.                                             *)
(***************************************************************************)
Running == stream # <<>>
Current == Head(stream)
Label(op) == <<op.kind, op.s, op.k, op.p, op.d>>

\* every launch covering the vertices of all groups
LaunchVertices_AllGroups(op) == Concat(mPartitions)

\* the vertices a MinimizeBackwardEuler launch covers: bdf.partition with a
\* grid of partition.Size() blocks
LaunchVertices(op) == IF op.p \in DOMAIN mPartitions THEN mPartitions[op.p] ELSE <<>>

Threads(op) ==
    IF op.kind = "Bcd" THEN 1..Len(LaunchVertices(op))
    ELSE IF op.kind \in {"CopyPositions", "CopyVelocities"} THEN {1}
    ELSE 1..nVertices

\* a thread of the running operation finishes; the operation completes with
\* its last thread and the stream moves on
Finish(t, newX) ==
    IF taskDone \cup {t} = Threads(Current)
    THEN /\ stream' = Tail(stream)
         /\ taskDone' = {}
         /\ log' = Append(log, Label(Current))
         /\ xAtLaunch' = newX
    ELSE /\ taskDone' = taskDone \cup {t}
         /\ UNCHANGED <<stream, log, xAtLaunch>>

CopyDimension(dst, src, d) ==
    [i \in DOMAIN dst |-> [dst[i] EXCEPT ![d] = src[i][d]]]

CopyPositions ==
    /\ Running /\ Current.kind = "CopyPositions"
    /\ mPositionsAtT' = CopyDimension(mPositionsAtT, X, Current.d)
    /\ Finish(1, X)
    /\ vStart' = IF Current.d = 1 THEN Append(vStart, mVelocities) ELSE vStart
    /\ UNCHANGED <<X, mInertialTargetPositions, mChebyshevPositionsM2,
                   mChebyshevPositionsM1, mVelocitiesAtT, mVelocities,
                   material, adjacency, mPartitions, host, taskVal,
                   raceSeen, xSweep, xAccel, chebAtCall, lastCall>>
    /\ UNCHANGED <<collisions, bvh, fem>>

\* the copy going from the previous velocities to the current ones
CopyVelocities_Backwards ==
    /\ Running /\ Current.kind = "CopyVelocities"
    /\ mVelocities' = CopyDimension(mVelocities, mVelocitiesAtT, Current.d)
    /\ Finish(1, X)
    /\ UNCHANGED <<X, mPositionsAtT, mInertialTargetPositions, mChebyshevPositionsM2,
                   mChebyshevPositionsM1, mVelocitiesAtT,
                   material, adjacency, mPartitions, host, taskVal,
                   raceSeen, xSweep, xAccel, chebAtCall, lastCall>>
    /\ UNCHANGED <<collisions, bvh, fem, vStart>>

CopyVelocities ==
    /\ Running /\ Current.kind = "CopyVelocities"
    /\ mVelocitiesAtT' = CopyDimension(mVelocitiesAtT, mVelocities, Current.d)
    /\ Finish(1, X)
    /\ UNCHANGED <<X, mPositionsAtT, mInertialTargetPositions, mChebyshevPositionsM2,
                   mChebyshevPositionsM1, mVelocities,
                   material, adjacency, mPartitions, host, taskVal,
                   raceSeen, xSweep, xAccel, chebAtCall, lastCall>>
    /\ UNCHANGED <<collisions, bvh, fem, vStart>>

\* the inertial target computed without the external acceleration
InertialTargetThread_WithoutAcceleration(t) ==
    /\ Running /\ Current.kind = "InertialTarget"
    /\ t \in Threads(Current) \ taskDone
    /\ mInertialTargetPositions' =
           [mInertialTargetPositions EXCEPT ![t] =
               InertialTarget(mPositionsAtT[t], mVelocities[t], Zero3,
                              Current.dt, Current.dt2)]
    /\ Finish(t, X)
    /\ UNCHANGED <<X, mPositionsAtT, mChebyshevPositionsM2, mChebyshevPositionsM1,
                   mVelocitiesAtT, mVelocities,
                   material, adjacency, mPartitions, host, taskVal,
                   raceSeen, xSweep, xAccel, chebAtCall, lastCall>>
    /\ UNCHANGED <<collisions, bvh, fem, vStart>>

InertialTargetThread(t) ==
    /\ Running /\ Current.kind = "InertialTarget"
    /\ t \in Threads(Current) \ taskDone
    /\ mInertialTargetPositions' =
           [mInertialTargetPositions EXCEPT ![t] =
               InertialTarget(mPositionsAtT[t], mVelocities[t], mExternalAcceleration[t],
                              Current.dt, Current.dt2)]
    /\ Finish(t, X)
    /\ UNCHANGED <<X, mPositionsAtT, mChebyshevPositionsM2, mChebyshevPositionsM1,
                   mVelocitiesAtT, mVelocities,
                   material, adjacency, mPartitions, host, taskVal,
                   raceSeen, xSweep, xAccel, chebAtCall, lastCall>>
    /\ UNCHANGED <<collisions, bvh, fem, vStart>>

InitialGuessThread(t) ==
    /\ Running /\ Current.kind = "InitialGuess"
    /\ t \in Threads(Current) \ taskDone
    /\ X' = [X EXCEPT ![t] =
               InitialPositionsForSolve(mPositionsAtT[t], mVelocitiesAtT[t], mVelocities[t],
                                        mExternalAcceleration[t], Current.dt, Current.dt2,
                                        mInitializationStrategy)]
    /\ Finish(t, X')
    /\ UNCHANGED <<mPositionsAtT, mInertialTargetPositions, mChebyshevPositionsM2,
                   mChebyshevPositionsM1, mVelocitiesAtT, mVelocities,
                   material, adjacency, mPartitions, host, taskVal,
                   raceSeen, xSweep, xAccel, chebAtCall, lastCall>>
    /\ UNCHANGED <<collisions, bvh, fem, vStart>>

\* the velocity update dividing by the time step of the whole call
IntegrateVelocityThread_WholeStep(t) ==
    /\ Running /\ Current.kind = "IntegrateVelocity"
    /\ t \in Threads(Current) \ taskDone
    /\ mVelocities' = [mVelocities EXCEPT ![t] =
                          IntegrateVelocity(mPositionsAtT[t], X[t],
                                            Current.dt * lastCall.substeps)]
    /\ Finish(t, X)
    /\ UNCHANGED <<X, mPositionsAtT, mInertialTargetPositions, mChebyshevPositionsM2,
                   mChebyshevPositionsM1, mVelocitiesAtT,
                   material, adjacency, mPartitions, host, taskVal,
                   raceSeen, xSweep, xAccel, chebAtCall, lastCall>>
    /\ UNCHANGED <<collisions, bvh, fem, vStart>>

IntegrateVelocityThread(t) ==
    /\ Running /\ Current.kind = "IntegrateVelocity"
    /\ t \in Threads(Current) \ taskDone
    /\ mVelocities' = [mVelocities EXCEPT ![t] =
                          IntegrateVelocity(mPositionsAtT[t], X[t], Current.dt)]
    /\ Finish(t, X)
    /\ UNCHANGED <<X, mPositionsAtT, mInertialTargetPositions, mChebyshevPositionsM2,
                   mChebyshevPositionsM1, mVelocitiesAtT,
                   material, adjacency, mPartitions, host, taskVal,
                   raceSeen, xSweep, xAccel, chebAtCall, lastCall>>
    /\ UNCHANGED <<collisions, bvh, fem, vStart>>

\* the threads of the launch, other than t, that have not finished
InFlight(t) == Threads(Current) \ (taskDone \cup {t})

\* a thread of MinimizeBackwardEuler gathers the positions it needs and solves
BcdRead(t) ==
    /\ Running /\ Current.kind = "Bcd"
    /\ t \in Threads(Current) \ taskDone
    /\ t \notin DOMAIN taskVal
    /\ LET i == LaunchVertices(Current)[t]
       IN  /\ taskVal' = (t :> MinimizeBackwardEuler(i, X, Current.dt, Current.dt2,
                                                     Current.detHZero, Current.kD))
                         @@ taskVal
           /\ raceSeen' = (raceSeen \/
                  \E u \in InFlight(t) : LaunchVertices(Current)[u] \in PositionsRead(i))
    /\ UNCHANGED <<buffers, host, stream, taskDone, log, xAtLaunch, xSweep, xAccel,
                   chebAtCall, lastCall>>
    /\ UNCHANGED <<collisions, bvh, fem, vStart>>

\* and then writes the position of its own vertex, unless the solve was skipped
BcdWrite(t) ==
    /\ Running /\ Current.kind = "Bcd"
    /\ t \in DOMAIN taskVal
    /\ LET i == LaunchVertices(Current)[t]
       IN  X' = IF taskVal[t].solved /\ i + 1 \in DOMAIN X
                THEN [X EXCEPT ![i + 1] = taskVal[t].x]
                ELSE X
    /\ taskVal' = [u \in DOMAIN taskVal \ {t} |-> taskVal[u]]
    /\ Finish(t, X')
    /\ UNCHANGED <<mPositionsAtT, mInertialTargetPositions, mChebyshevPositionsM2,
                   mChebyshevPositionsM1, mVelocitiesAtT, mVelocities,
                   material, adjacency, mPartitions, host, raceSeen, xSweep, xAccel,
                   chebAtCall, lastCall>>
    /\ UNCHANGED <<collisions, bvh, fem, vStart>>

\* the lambda writing back an update applied from the first iteration on
ChebyshevLambda_Accelerates(t, k, omega) ==
    ChebyshevUpdate(k + 2, omega, mChebyshevPositionsM2[t], mChebyshevPositionsM1[t], X[t])

\* the Chebyshev lambda: FromBuffers copies the three vectors of vertex t into
\* locals, ChebyshevUpdate changes the locals, and the lambda ends; it holds no
\* ToBuffers, so no buffer receives the locals
ChebyshevLambda(t, k, omega) ==
    LET locals == ChebyshevUpdate(k, omega, mChebyshevPositionsM2[t],
                                  mChebyshevPositionsM1[t], X[t])
    IN  [xkm2 |-> mChebyshevPositionsM2[t], xkm1 |-> mChebyshevPositionsM1[t],
         xk |-> X[t]]

ChebyshevThread(t) ==
    /\ Running /\ Current.kind = "Chebyshev"
    /\ t \in Threads(Current) \ taskDone
    /\ LET out == ChebyshevLambda(t, Current.k, Current.omega)
       IN  /\ mChebyshevPositionsM2' = [mChebyshevPositionsM2 EXCEPT ![t] = out.xkm2]
           /\ mChebyshevPositionsM1' = [mChebyshevPositionsM1 EXCEPT ![t] = out.xkm1]
           /\ X' = [X EXCEPT ![t] = out.xk]
    /\ Finish(t, X')
    /\ xSweep' = IF taskDone # {} THEN xSweep
                 ELSE IF Current.k = 0 THEN <<X>> ELSE Append(xSweep, X)
    /\ xAccel' = IF taskDone \cup {t} # Threads(Current) THEN xAccel
                 ELSE Append(IF Current.k = 0 THEN <<>> ELSE xAccel,
                             [x |-> X', omega |-> Current.omega])
    /\ UNCHANGED <<mPositionsAtT, mInertialTargetPositions, mVelocitiesAtT, mVelocities,
                   material, adjacency, mPartitions, host, taskVal, raceSeen, chebAtCall,
                   lastCall>>
    /\ UNCHANGED <<collisions, bvh, fem, vStart>>

Setter ==
    \/ \E A \in PositionInputs : SetPositions(A)
    \/ \E A \in VelocityInputs : SetVelocities(A)
    \/ \E A \in AccelerationInputs : SetExternalAcceleration(A)
    \/ \E A \in MassInputs : SetMass(A)
    \/ \E A \in QuadratureInputs : SetQuadratureWeights(A)
    \/ \E A \in GradientInputs : SetShapeFunctionGradients(A)
    \/ \E A \in LameInputs : SetLameCoefficients(A)
    \/ \E z \in DetHZeroInputs : SetNumericalZeroForHessianDeterminant(z)
    \/ \E A \in AdjacencyInputs : SetVertexTetrahedronAdjacencyList(A[1], A[2], A[3])
    \/ \E P \in PartitionInputs : SetVertexPartitions(P)

Host ==
    \/ Setter
    \/ TestArrange
    \/ \E dt \in DtInputs, iterations \in IterationInputs, substeps \in SubstepInputs,
          rho \in RhoInputs : StepCall(dt, iterations, substeps, rho)
    \/ StepEnqueue
    \/ StepReturn

Device ==
    \/ CopyPositions
    \/ CopyVelocities
    \/ \E t \in 1..nVertices : InertialTargetThread(t)
    \/ \E t \in 1..nVertices : InitialGuessThread(t)
    \/ \E t \in 1..nVertices : BcdRead(t)
    \/ \E t \in 1..nVertices : BcdWrite(t)
    \/ \E t \in 1..nVertices : ChebyshevThread(t)
    \/ \E t \in 1..nVertices : IntegrateVelocityThread(t)

Next == Host \/ Device

Spec == Init /\ [][Next]_vars

(***************************************************************************)
(* Consecutive Step calls.  Spec bounds a run to MaxSteps calls; LagSpec    *)
(* lets one more call follow, after a call of one substep and one          *)
(* iteration on partitioned vertices, so that a substep whose predecessor  *)
(* belongs to an earlier call is reached.                                  *)
(***************************************************************************)
StepAgain(dt, iterations, substeps, rho) ==
    /\ pc = "idle" /\ nSteps = MaxSteps
    /\ called = "Step"
    /\ lastCall.substeps = 1 /\ lastCall.iterations = 1 /\ lastCall.groups > 0
    /\ pc' = "entered"
    /\ args' = [dt |-> dt, iterations |-> iterations, substeps |-> substeps, rho |-> rho]
    /\ called' = "Step"
    /\ UNCHANGED <<buffers, result, bUseChebyshevAcceleration, nSetCalls, nSteps,
                   device, ghost>>
    /\ UNCHANGED <<collisions, bvh, fem, vStart>>

LagNext ==
    \/ Next
    \/ \E dt \in DtInputs, substeps \in SubstepInputs : StepAgain(dt, 1, substeps, <<0, 1>>)

LagSpec == Init /\ [][LagNext]_vars

(***************************************************************************)
(* BvhQueryImpl::Build and BvhQueryImpl::DetectOverlaps.  Both run on the  *)
(* calling thread with synchronous thrust algorithms, so each call is one  *)
(* step.  nLaunches counts the device algorithms (for_each, sequence,      *)
(* sort) the calls have started.                                           *)
(***************************************************************************)
NumberOfAllocatedBoxes == Len(simplex)

Min2(u, v) == IF u < v THEN u ELSE v
Max2(u, v) == IF u < v THEN v ELSE u

\* FComputeAabb: the box of the two end points of an edge, grown by expansion
AabbLower(S, i, expansion) ==
    [d \in Axes |-> Min2(Xin[S[i][1] + 1][d], Xin[S[i][2] + 1][d]) - expansion]
AabbUpper(S, i, expansion) ==
    [d \in Axes |-> Max2(Xin[S[i][1] + 1][d], Xin[S[i][2] + 1][d]) + expansion]

\* FComputeMortonCode: the bits of twice the box centre, interleaved over the axes
Bit(v, j) == (v \div (2 ^ j)) % 2
MortonCode(lo, hi) ==
    LET c == [d \in Axes |-> lo[d] + hi[d]]
        term(j, d) == Bit(c[d], j) * (2 ^ (3 * j + d - 1))
    IN  term(0, 1) + term(0, 2) + term(0, 3) + term(1, 1) + term(1, 2) + term(1, 3)

\* thrust::stable_sort_by_key over the first n keys: the place of entry i
StableRank(keys, n, i) ==
    1 + Cardinality({j \in 1..n : keys[j] < keys[i] \/ (keys[j] = keys[i] /\ j < i)})
\* the values of the first n cells moved to their places, the others left
SortedByKey(keys, n, values) ==
    [r \in DOMAIN values |->
        IF r <= n THEN values[CHOOSE i \in 1..n : StableRank(keys, n, i) = r]
        ELSE values[r]]

\* bvhCalled, bvhCount and bvhResult record the call made last, the number
\* of simplices it was handed and how it ended
BvhReturns(f, n, r) ==
    /\ nBvhCalls < MaxBvhCalls
    /\ bvhCalled' = f /\ bvhCount' = n /\ bvhResult' = r
    /\ nBvhCalls' = nBvhCalls + 1
    /\ UNCHANGED <<vbd, fem>>

\* Build running its kernels before it compares the sizes
Build_CheckLast(S, expansion) ==
    LET n == Len(S)
        m == Min2(n, Len(simplex))
        lo == [i \in DOMAIN boxB |-> IF i <= m THEN AabbLower(S, i, expansion) ELSE boxB[i]]
        hi == [i \in DOMAIN boxE |-> IF i <= m THEN AabbUpper(S, i, expansion) ELSE boxE[i]]
    IN  /\ boxB' = lo
        /\ boxE' = hi
        /\ nLaunches' = nLaunches + 1
        /\ UNCHANGED <<simplex, morton, overlaps>>
        /\ BvhReturns("Build", n, IF NumberOfAllocatedBoxes < n THEN "invalid_argument"
                                   ELSE "ok")

Build(S, expansion) ==
    LET n == Len(S)
    IN  IF NumberOfAllocatedBoxes < n
        THEN /\ UNCHANGED <<bvhBuffers, nLaunches>>
             /\ BvhReturns("Build", n, "invalid_argument")
        ELSE LET lo == [i \in DOMAIN boxB |->
                           IF i <= n THEN AabbLower(S, i, expansion) ELSE boxB[i]]
                 hi == [i \in DOMAIN boxE |->
                           IF i <= n THEN AabbUpper(S, i, expansion) ELSE boxE[i]]
                 codes == [i \in DOMAIN morton |->
                              IF i <= n THEN MortonCode(lo[i], hi[i]) ELSE morton[i]]
                 ids == [i \in DOMAIN simplex |-> i - 1]
             IN  /\ boxB' = SortedByKey(codes, n, lo)
                 /\ boxE' = SortedByKey(codes, n, hi)
                 /\ simplex' = SortedByKey(codes, n, ids)
                 /\ morton' = SortedByKey(codes, n, codes)
                 /\ nLaunches' = nLaunches + 4
                 /\ UNCHANGED overlaps
                 /\ BvhReturns("Build", n, "ok")

\* FDetectOverlaps: the pairs (query simplex, leaf simplex) whose boxes meet
BoxesOverlap(lo1, hi1, lo2, hi2) ==
    \A d \in Axes : lo1[d] <= hi2[d] /\ lo2[d] <= hi1[d]
OverlappingPairs(nQueries, tree) ==
    {<<simplex[q], tree.simplex[l]>> : <<q, l>> \in
        {pr \in (1..nQueries) \X DOMAIN tree.simplex :
            BoxesOverlap(boxB[pr[1]], boxE[pr[1]], tree.b[pr[2]], tree.e[pr[2]])}}

\* the list keeps what fits: which of the pairs found at once are kept when
\* they exceed the room left depends on the order the threads append in
DetectOverlaps(S1, tree) ==
    LET nQueries == Len(S1)
    IN  IF NumberOfAllocatedBoxes < nQueries
        THEN /\ UNCHANGED <<bvhBuffers, nLaunches>>
             /\ BvhReturns("DetectOverlaps", nQueries, "invalid_argument")
        ELSE LET found == overlaps \cup OverlappingPairs(nQueries, tree)
             IN  /\ overlaps' \in
                        {kept \in SUBSET found :
                            /\ overlaps \subseteq kept
                            /\ Cardinality(kept) = Min2(Cardinality(found), nOverlaps)}
                 /\ nLaunches' = nLaunches + 1
                 /\ UNCHANGED <<simplex, morton, boxB, boxE>>
                 /\ BvhReturns("DetectOverlaps", nQueries, "ok")

BvhNext ==
    \/ \E S \in SimplexInputs, expansion \in ExpansionInputs : Build(S, expansion)
    \/ \E S1 \in SimplexInputs, tree \in BvhInputs : DetectOverlaps(S1, tree)

BvhSpec == Init /\ [][BvhNext]_vars

(***************************************************************************)
(* fem::Mesh.  The constructor visits the cells in order and, in each      *)
(* cell, the nodes of the element in order; a step of the model visits one *)
(* node.  The element types and math::Rational are not in the sources: an  *)
(* element is a Lagrange simplex given by its dimension, its order and the *)
(* coordinates of its nodes in units of 1/kOrder, and a Rational is a      *)
(* fraction in lowest terms compared by value.  Cell vertex indices start  *)
(* at 0 as in the code; positions in sequences start at 1.                 *)
(***************************************************************************)
Line1 == [kDims |-> 1, kOrder |-> 1, Coordinates |-> << <<0>>, <<1>> >>]
Line2 == [kDims |-> 1, kOrder |-> 2, Coordinates |-> << <<0>>, <<1>>, <<2>> >>]
Triangle2 ==
    [kDims |-> 2, kOrder |-> 2,
     Coordinates |-> << <<0, 0>>, <<1, 0>>, <<2, 0>>, <<0, 1>>, <<1, 1>>, <<0, 2>> >>]
ElementInputs == {Line1, Line2, Triangle2}
kVerticesPerCell(el) == el.kDims + 1
kNodes(el) == Len(el.Coordinates)

RECURSIVE SeqSum(_)
SeqSum(q) == IF q = <<>> THEN 0 ELSE Head(q) + SeqSum(Tail(q))

\* the affine shape functions at the node with coordinates Xi / kOrder
AffineN(el, Xi) ==
    [j \in 1..kVerticesPerCell(el) |->
        IF j = 1 THEN Frac(el.kOrder - SeqSum(Xi), el.kOrder)
        ELSE Frac(Xi[j - 1], el.kOrder)]

MeshV == << <<0, 0>>, <<4, 0>>, <<0, 4>>, <<4, 4>> >>
numberOfVertices == Len(MeshV)
\* a cell lists distinct vertices, in any order
CellsOf(el) ==
    {cv \in [1..kVerticesPerCell(el) -> 0..(numberOfVertices - 1)] :
        \A a, b \in DOMAIN cv : a # b => cv[a] # cv[b]}
CellInputs(el) == UNION {[1..m -> CellsOf(el)] : m \in 0..MaxCells}

\* the local indices in the order the cell lists them
SortOrder_AsListed(cellVertices) == [r \in DOMAIN cellVertices |-> r]

\* the local indices sorted by cell vertex index
SortOrder(cellVertices) ==
    [r \in DOMAIN cellVertices |->
        CHOOSE j \in DOMAIN cellVertices :
            Cardinality({l \in DOMAIN cellVertices :
                            cellVertices[l] < cellVertices[j]}) = r - 1]

\* std::remove_if keeps the order of what it retains; what it leaves behind
\* the retained entries is never read and is not kept here
NodalKey(cellVertices, sortOrder, N) ==
    LET kept == SelectSeq(sortOrder, LAMBDA o : ~FracEq(N[o], <<0, 1>>))
    IN  [mCellVertices |-> cellVertices, mSortOrder |-> kept, mN |-> N,
         mSize |-> Len(kept)]

KeyVertex(k, n) == k.mCellVertices[k.mSortOrder[n]]
KeyWeight(k, n) == k.mN[k.mSortOrder[n]]
FirstOf(S) == CHOOSE n \in S : \A m \in S : n <= m

\* NodalKey::operator==
NodalKeyEq(lhs, rhs) ==
    IF lhs.mSize # rhs.mSize THEN FALSE
    ELSE \A n \in 1..lhs.mSize :
             /\ KeyVertex(lhs, n) = KeyVertex(rhs, n)
             /\ FracEq(KeyWeight(lhs, n), KeyWeight(rhs, n))

\* NodalKey::operator<
NodalKeyLess(lhs, rhs) ==
    IF lhs.mSize # rhs.mSize THEN lhs.mSize < rhs.mSize
    ELSE LET dv == {n \in 1..lhs.mSize : KeyVertex(lhs, n) # KeyVertex(rhs, n)}
             dn == {n \in 1..lhs.mSize :
                       ~FracEq(KeyWeight(lhs, n), KeyWeight(rhs, n))}
         IN  IF dv # {}
             THEN KeyVertex(lhs, FirstOf(dv)) < KeyVertex(rhs, FirstOf(dv))
             ELSE IF dn # {}
             THEN FracLess(KeyWeight(lhs, FirstOf(dn)), KeyWeight(rhs, FirstOf(dn)))
             ELSE FALSE

\* std::map<NodalKey, Index> as its entries in key order: find and insert
\* locate a key with operator< alone
LowerBound(m, key) ==
    FirstOf({q \in 1..(Len(m) + 1) : q = Len(m) + 1 \/ ~NodalKeyLess(m[q].key, key)})
Find(m, key) ==
    LET q == LowerBound(m, key)
    IN  IF q <= Len(m) /\ ~NodalKeyLess(key, m[q].key) THEN q ELSE 0
Insert(m, key, node) ==
    LET q == LowerBound(m, key)
    IN  SubSeq(m, 1, q - 1) \o <<[key |-> key, node |-> node]>> \o SubSeq(m, q, Len(m))

\* Xc * N
NodePosition(cellVertices, N) ==
    [d \in 1..Len(MeshV[1]) |->
        SeqSum([j \in DOMAIN cellVertices |->
                   FracTimesInt(N[j], MeshV[cellVertices[j] + 1][d])])]

MeshCall(el, C) ==
    /\ meshPc = "idle"
    /\ element' = el
    /\ meshC' = C
    /\ nodeMap' = <<>>
    /\ nodes' = <<>>
    /\ \E junk \in UninitValues :
           E' = [cc \in 1..Len(C) |-> [nn \in 1..kNodes(el) |-> junk]]
    /\ meshCell' = 1
    /\ meshNode' = 1
    /\ meshPc' = "loop"
    /\ UNCHANGED meshX
    /\ UNCHANGED <<vbd, bvh>>

MeshVisit ==
    /\ meshPc = "loop" /\ meshCell <= Len(meshC)
    /\ LET cellVertices == meshC[meshCell]
           sortOrder == SortOrder(cellVertices)
           N == AffineN(element, element.Coordinates[meshNode])
           key == NodalKey(cellVertices, sortOrder, N)
           it == Find(nodeMap, key)
           nodeIdx == Len(nodes)
       IN  /\ nodes' = IF it = 0 THEN Append(nodes, NodePosition(cellVertices, N))
                       ELSE nodes
           /\ nodeMap' = IF it = 0 THEN Insert(nodeMap, key, nodeIdx) ELSE nodeMap
           /\ E' = [E EXCEPT ![meshCell][meshNode] =
                       IF it = 0 THEN nodeIdx ELSE nodeMap[it].node]
    /\ IF meshNode < kNodes(element)
       THEN meshNode' = meshNode + 1 /\ meshCell' = meshCell
       ELSE meshNode' = 1 /\ meshCell' = meshCell + 1
    /\ UNCHANGED <<element, meshC, meshPc, meshX>>
    /\ UNCHANGED <<vbd, bvh>>

MeshCollect ==
    /\ meshPc = "loop" /\ meshCell > Len(meshC)
    /\ meshX' = nodes
    /\ meshPc' = "done"
    /\ UNCHANGED <<element, meshC, meshCell, meshNode, nodeMap, nodes, E>>
    /\ UNCHANGED <<vbd, bvh>>

MeshNext ==
    \/ \E el \in ElementInputs : \E C \in CellInputs(el) : MeshCall(el, C)
    \/ MeshVisit
    \/ MeshCollect

MeshSpec == Init /\ [][MeshNext]_vars

(***************************************************************************)
(* Properties                                                              *)
(***************************************************************************)

\* C1 (as stated): SetVertexTetrahedronAdjacencyList fails with invalid-argument
\* exactly when the neighbour and ilocal arrays differ in size, and with equal
\* sizes the neighbour and ilocal buffers hold the given arrays afterwards.
C1_AsStated ==
    [][\A A \in AdjacencyInputs :
          (called' = "SetVertexTetrahedronAdjacencyList"
              /\ SetVertexTetrahedronAdjacencyList(A[1], A[2], A[3])) =>
              /\ (result' = "invalid_argument") <=> (Len(A[2]) # Len(A[3]))
              /\ Len(A[2]) = Len(A[3]) =>
                    /\ mVertexTetrahedronNeighbours' = A[2]
                    /\ mVertexTetrahedronLocalVertexIndices' = A[3]]_vars

\* C1 (amended): the call fails with invalid-argument exactly when the neighbour
\* and ilocal arrays differ in size or the prefix array has not nVertices + 1
\* entries; when it does not fail, the prefix, neighbour and ilocal buffers hold
\* the given arrays, the latter two of the length of the neighbour array.
C1_AdjacencySetter ==
    [][\A A \in AdjacencyInputs :
          (called' = "SetVertexTetrahedronAdjacencyList"
              /\ SetVertexTetrahedronAdjacencyList(A[1], A[2], A[3])) =>
              /\ (result' = "invalid_argument")
                     <=> (Len(A[2]) # Len(A[3]) \/ Len(A[1]) # nVertices + 1)
              /\ result' # "invalid_argument" =>
                    /\ mVertexTetrahedronPrefix' = A[1]
                    /\ mVertexTetrahedronNeighbours' = A[2]
                    /\ mVertexTetrahedronLocalVertexIndices' = A[3]
                    /\ Len(mVertexTetrahedronNeighbours') = Len(A[2])
                    /\ Len(mVertexTetrahedronLocalVertexIndices') = Len(A[2])]_vars

\* a successful call has stored arrays of equal size
C1_Witness ==
    /\ called = "SetVertexTetrahedronAdjacencyList" /\ result = "ok"
    /\ mVertexTetrahedronNeighbours = MeshNeighbours \o <<0>>
    /\ mVertexTetrahedronLocalVertexIndices = MeshLocal \o <<0>>

\* C2 (as stated): with a buffer set through a setter that does not match the
\* vertex and element counts of the mesh, Step fails with invalid-argument
\* before it enqueues anything.
PartitionsMismatch ==
    /\ mPartitions # <<>>
    /\ \E v \in 0..(nVertices - 1) :
          Cardinality({<<p, t>> \in (DOMAIN mPartitions) \X (1..nVertices) :
                          t \in DOMAIN mPartitions[p] /\ mPartitions[p][t] = v}) # 1
AdjacencyMismatch ==
    /\ mVertexTetrahedronNeighbours # <<>>
    /\ Len(mVertexTetrahedronNeighbours) # VerticesPerTet * nElements
BufferMismatch == PartitionsMismatch \/ AdjacencyMismatch
C2_StepRejectsMismatch ==
    (pc = "sync" /\ BufferMismatch) => (result = "invalid_argument" /\ stream = <<>>)

\* C3: a setter or Step call that fails leaves every buffer as it was before
\* the call.
C3_NoPartialFailure ==
    [][((nSetCalls' # nSetCalls \/ nSteps' # nSteps \/ pc' # pc)
            /\ result' = "invalid_argument")
        => UNCHANGED buffers]_vars

\* a setter failed on an integrator whose adjacency had been set
C3_Witness ==
    /\ called = "SetVertexTetrahedronAdjacencyList" /\ result = "invalid_argument"
    /\ mVertexTetrahedronPrefix = MeshPrefix
    /\ mVertexTetrahedronNeighbours = MeshNeighbours

\* the operations completed since the last Step call, then the running one
Seen == IF Running THEN Append(log, Label(Current)) ELSE log
Kind(l) == l[1]
SubstepOf(l) == l[2]
IterationOf(l) == l[3]
GroupOf(l) == l[4]
AxisOf(l) == l[5]
BcdLabel(s, k, p) == <<"Bcd", s, k, p, 0>>
ChebyshevLabel(s, k) == <<"Chebyshev", s, k, 0, 0>>
Started == taskDone # {} \/ taskVal # <<>>

\* C4: within an outer iteration the groups are launched in stored order, one
\* launch per group; only one launch runs at a time, so while a group runs the
\* positions of all other vertices are those left when the previous launch
\* ended; the acceleration phase follows the last group of its iteration and
\* precedes the first group of the next.
C4_GroupsInOrder ==
    /\ \A n \in 1..(Len(Seen) - 1) :
          LET a == Seen[n]
              b == Seen[n + 1]
              P == lastCall.groups
          IN  /\ (Kind(b) = "Bcd" /\ GroupOf(b) > 1) =>
                     a = BcdLabel(SubstepOf(b), IterationOf(b), GroupOf(b) - 1)
              /\ (Kind(b) = "Bcd" /\ GroupOf(b) = 1 /\ IterationOf(b) > 0) =>
                     a = IF bUseChebyshevAcceleration
                         THEN ChebyshevLabel(SubstepOf(b), IterationOf(b) - 1)
                         ELSE BcdLabel(SubstepOf(b), IterationOf(b) - 1, P)
              /\ (Kind(b) = "Chebyshev" /\ P > 0) =>
                     a = BcdLabel(SubstepOf(b), IterationOf(b), P)
              /\ (Kind(a) = "Bcd" /\ GroupOf(a) < P) =>
                     b = BcdLabel(SubstepOf(a), IterationOf(a), GroupOf(a) + 1)
              /\ (Kind(a) = "Bcd" /\ GroupOf(a) = P /\ bUseChebyshevAcceleration) =>
                     b = ChebyshevLabel(SubstepOf(a), IterationOf(a))
    /\ Started => (Running /\ taskDone \subseteq Threads(Current)
                           /\ DOMAIN taskVal \subseteq Threads(Current) \ taskDone)
    /\ (Running /\ Current.kind = "Bcd") =>
           \A v \in 0..(nVertices - 1) :
               v \notin Range(LaunchVertices(Current)) => PosAt(X, v) = PosAt(xAtLaunch, v)

\* the second group of the second iteration is running after the first group
\* has moved its vertices
C4_Witness ==
    /\ Running /\ Current.kind = "Bcd" /\ Current.k = 1 /\ Current.p = 2
    /\ taskVal # <<>>
    /\ X # mPositionsAtT
    /\ bUseChebyshevAcceleration

\* no two vertices of one group lie in a common tetrahedron
SharesElement(v, w) ==
    \E e \in DOMAIN Tin : v \in Range(Tin[e]) /\ w \in Range(Tin[e])
PartitionOK ==
    \A p \in DOMAIN mPartitions :
        \A t, u \in DOMAIN mPartitions[p] :
            t # u => ~SharesElement(mPartitions[p][t], mPartitions[p][u])

\* the solve of the vertex of thread t on the positions at the launch
SolveAtLaunch(t) ==
    MinimizeBackwardEuler(LaunchVertices(Current)[t], xAtLaunch, Current.dt, Current.dt2,
                          Current.detHZero, Current.kD)

\* C5: with a partition that satisfies the no-shared-element invariant, no
\* thread of a launch reads a position another thread of the launch writes,
\* every thread computes what it would compute alone on the positions at the
\* launch, and writes that to its own vertex only; a read of a position that an
\* unfinished thread of the same launch writes happens only with a partition
\* that breaks the invariant.
C5_RaceFreedom ==
    /\ (pc = "sync" /\ raceSeen) => ~PartitionOK
    /\ (Running /\ Current.kind = "Bcd" /\ PartitionOK) =>
          /\ \A t, u \in Threads(Current) :
                 t # u => LaunchVertices(Current)[u]
                             \notin PositionsRead(LaunchVertices(Current)[t])
          /\ \A t \in DOMAIN taskVal : taskVal[t] = SolveAtLaunch(t)
          /\ \A v \in 0..(nVertices - 1) :
                 PosAt(X, v) =
                     IF \E t \in taskDone : LaunchVertices(Current)[t] = v
                     THEN SolveAtLaunch(CHOOSE t \in taskDone :
                                            LaunchVertices(Current)[t] = v).x
                     ELSE PosAt(xAtLaunch, v)

\* a group of two vertices: one has written a new position, the other has read
C5_Witness ==
    /\ Running /\ Current.kind = "Bcd" /\ PartitionOK
    /\ Cardinality(Threads(Current)) = 2
    /\ taskDone # {} /\ taskVal # <<>>
    /\ X # xAtLaunch
    /\ mVertexTetrahedronNeighbours # <<>>

\* with two vertices of one tetrahedron in a group, a thread reads a position
\* that the other, unfinished thread writes
C5_RaceReached ==
    /\ pc = "sync" /\ raceSeen /\ ~PartitionOK

Phase(l) ==
    CASE Kind(l) = "CopyPositions" -> 1
      [] Kind(l) = "InertialTarget" -> 2
      [] Kind(l) = "InitialGuess" -> 3
      [] Kind(l) \in {"Bcd", "Chebyshev"} -> 4
      [] OTHER -> 5

\* C6: a substep runs snapshot, inertial target, initial guess, outer
\* iterations, velocity update in this order, each phase complete before the
\* next starts, and substep s+1 starts after the velocity update of substep s:
\* the inertial target is computed from the finished snapshot, the initial guess
\* starts with all inertial targets computed, the first solve starts from the
\* initial guess, the velocity update starts with the previous velocities
\* saved, and the next snapshot starts with all velocities updated.
C6_PhasesInOrder ==
    /\ Seen # <<>> => Seen[1] = <<"CopyPositions", 0, 0, 0, 1>>
    /\ \A n \in 1..(Len(Seen) - 1) :
          LET a == Seen[n]
              b == Seen[n + 1]
          IN  \/ /\ SubstepOf(b) = SubstepOf(a)
                 /\ Kind(a) = "CopyPositions" /\ AxisOf(a) < Dims
                 /\ Kind(b) = "CopyPositions" /\ AxisOf(b) = AxisOf(a) + 1
              \/ /\ SubstepOf(b) = SubstepOf(a)
                 /\ Kind(a) = "CopyPositions" /\ AxisOf(a) = Dims
                 /\ Kind(b) = "InertialTarget"
              \/ /\ SubstepOf(b) = SubstepOf(a)
                 /\ Kind(a) = "InertialTarget" /\ Kind(b) = "InitialGuess"
              \/ /\ SubstepOf(b) = SubstepOf(a)
                 /\ Kind(a) = "InitialGuess" /\ Phase(b) = 4 /\ IterationOf(b) = 0
              \/ /\ SubstepOf(b) = SubstepOf(a)
                 /\ Kind(a) = "InitialGuess"
                 /\ Kind(b) = "CopyVelocities" /\ AxisOf(b) = 1
                 /\ (lastCall.iterations <= 0
                        \/ (lastCall.groups = 0 /\ ~bUseChebyshevAcceleration))
              \/ /\ SubstepOf(b) = SubstepOf(a)
                 /\ Phase(a) = 4 /\ Phase(b) = 4
                 /\ IterationOf(b) \in {IterationOf(a), IterationOf(a) + 1}
              \/ /\ SubstepOf(b) = SubstepOf(a)
                 /\ Phase(a) = 4 /\ IterationOf(a) = lastCall.iterations - 1
                 /\ Kind(b) = "CopyVelocities" /\ AxisOf(b) = 1
              \/ /\ SubstepOf(b) = SubstepOf(a)
                 /\ Kind(a) = "CopyVelocities" /\ AxisOf(a) < Dims
                 /\ Kind(b) = "CopyVelocities" /\ AxisOf(b) = AxisOf(a) + 1
              \/ /\ SubstepOf(b) = SubstepOf(a)
                 /\ Kind(a) = "CopyVelocities" /\ AxisOf(a) = Dims
                 /\ Kind(b) = "IntegrateVelocity"
              \/ /\ SubstepOf(b) = SubstepOf(a) + 1
                 /\ Kind(a) = "IntegrateVelocity"
                 /\ Kind(b) = "CopyPositions" /\ AxisOf(b) = 1
    /\ (Running /\ Current.kind = "InertialTarget") => mPositionsAtT = X
    /\ (Running /\ Current.kind = "InitialGuess") =>
          \A i \in 1..nVertices :
              mInertialTargetPositions[i] =
                  InertialTarget(mPositionsAtT[i], mVelocities[i],
                                 mExternalAcceleration[i], Current.dt, Current.dt2)
    /\ (Running /\ Phase(Label(Current)) = 4 /\ taskDone = {}
           /\ Kind(log[Len(log)]) = "InitialGuess") =>
          \A i \in 1..nVertices :
              X[i] = InitialPositionsForSolve(mPositionsAtT[i], mVelocitiesAtT[i],
                         mVelocities[i], mExternalAcceleration[i], Current.dt,
                         Current.dt2, mInitializationStrategy)
    /\ (Running /\ Current.kind = "IntegrateVelocity" /\ taskDone = {}) =>
          mVelocitiesAtT = mVelocities
    /\ (Running /\ Current.kind = "CopyPositions" /\ Current.d = 1 /\ Current.s > 0) =>
          \A i \in 1..nVertices :
              mVelocities[i] = IntegrateVelocity(mPositionsAtT[i], X[i], Current.dt)

\* the second substep takes its snapshot of positions and velocities that the
\* first substep has changed
C6_Witness ==
    /\ Running /\ Current.kind = "InertialTarget" /\ Current.s = 1
    /\ mPositionsAtT # Xin
    /\ mVelocities # mVelocitiesAtT
    /\ lastCall.iterations > 0

\* C7: a Step call that has returned has performed exactly substeps substeps,
\* each with exactly iterations outer iterations, each launching every group
\* exactly once, whatever the positions; and the operation at the head of the
\* stream always has a thread left to run, so the call ends after the
\* operations it enqueued.
Occurrences(l) == Cardinality({n \in DOMAIN log : log[n] = l})
OfKind(kind) == Cardinality({n \in DOMAIN log : Kind(log[n]) = kind})
C7_FixedCounts ==
    /\ (pc = "idle" /\ called = "Step") =>
          LET passes == IF lastCall.iterations > 0 THEN lastCall.iterations ELSE 0
          IN  /\ \A s \in 0..(lastCall.substeps - 1) :
                    /\ Occurrences(<<"InertialTarget", s, 0, 0, 0>>) = 1
                    /\ Occurrences(<<"InitialGuess", s, 0, 0, 0>>) = 1
                    /\ Occurrences(<<"IntegrateVelocity", s, 0, 0, 0>>) = 1
                    /\ \A k \in 0..(passes - 1) : \A p \in DOMAIN mPartitions :
                           Occurrences(BcdLabel(s, k, p)) = 1
              /\ OfKind("InertialTarget") = lastCall.substeps
              /\ OfKind("IntegrateVelocity") = lastCall.substeps
              /\ OfKind("Bcd") = lastCall.substeps * passes * Len(mPartitions)
    /\ (pc = "sync" /\ Running) => Threads(Current) \ taskDone # {}

\* a call with two substeps of three iterations over four groups has returned
C7_Witness ==
    /\ pc = "idle" /\ called = "Step"
    /\ lastCall.substeps = 2 /\ lastCall.iterations = 3 /\ Len(mPartitions) = 4
    /\ X # Xin

\* C8: when Step has returned the stream is empty and no thread is running:
\* everything the call enqueued, the last velocity update included, is done.
C8_StepSynchronous ==
    pc = "idle" =>
        /\ stream = <<>> /\ ~Started
        /\ called = "Step" =>
              /\ log # <<>>
              /\ log[Len(log)] = <<"IntegrateVelocity", lastCall.substeps - 1, 0, 0, 0>>

\* Step has returned after moving the vertices
C8_Witness ==
    /\ pc = "idle" /\ called = "Step" /\ nSteps = 1
    /\ X # Xin /\ mVelocities # Constant(nVertices, Zero3)

ChebyshevOps(ops) == {n \in DOMAIN ops : ops[n].kind = "Chebyshev"}

\* C9: a Step call runs the acceleration exactly when 0 < rho < 1; otherwise no
\* omega is computed and no acceleration phase is enqueued or run, the last
\* group of an iteration is followed directly by the first group of the next
\* iteration or by the velocity update, and the two Chebyshev history buffers
\* keep the contents they had at the call.
C9_ChebyshevSwitch ==
    /\ [][(pc = "entered" /\ pc' = "sync") =>
            LET enabled == args.rho[1] > 0 /\ args.rho[1] < args.rho[2]
                passes == IF args.iterations > 0 THEN args.iterations ELSE 0
            IN  /\ bUseChebyshevAcceleration' = enabled
                /\ Cardinality(ChebyshevOps(stream')) =
                       IF enabled THEN args.substeps * passes ELSE 0
                /\ ~enabled => \A n \in DOMAIN stream' : stream'[n].omega = <<0, 1>>]_vars
    /\ []((pc \in {"sync", "idle"} /\ called = "Step" /\ ~bUseChebyshevAcceleration) =>
            /\ ChebyshevOps(stream) = {}
            /\ \A n \in DOMAIN log : Kind(log[n]) # "Chebyshev"
            /\ \A n \in 1..(Len(Seen) - 1) :
                   (Kind(Seen[n]) = "Bcd" /\ GroupOf(Seen[n]) = lastCall.groups) =>
                       \/ Seen[n + 1] = BcdLabel(SubstepOf(Seen[n]), IterationOf(Seen[n]) + 1, 1)
                       \/ Seen[n + 1] = <<"CopyVelocities", SubstepOf(Seen[n]), 0, 0, 1>>
            /\ <<mChebyshevPositionsM2, mChebyshevPositionsM1>> = chebAtCall)

\* without acceleration the second iteration has followed the first directly
C9_Witness ==
    /\ pc = "sync" /\ ~bUseChebyshevAcceleration
    /\ Running /\ Current.kind = "Bcd" /\ Current.k = 1 /\ Current.p = 1
    /\ taskVal # <<>>
    /\ X # mPositionsAtT

\* C10 (as stated): with acceleration, after the acceleration phase of an
\* iteration k >= 2 every position is omega (x_k - x_{k-2}) + x_{k-2}, x_k the
\* position the sweep of iteration k left and x_{k-2} the accelerated position
\* of iteration k-2, and the two history buffers hold the accelerated positions
\* of iterations k-1 and k.
C10_AcceleratedPositions ==
    (Len(xAccel) >= 3 /\ Len(xSweep) = Len(xAccel)) =>
        LET n == Len(xAccel)
            omega == xAccel[n].omega
            xk == xSweep[n]
            xkm2 == xAccel[n - 2].x
        IN  /\ \A i \in 1..nVertices :
                   xAccel[n].x[i] =
                       VAdd([d \in Axes |-> FracTimesInt(omega, xk[i][d] - xkm2[i][d])],
                            xkm2[i])
            /\ mChebyshevPositionsM2 = xAccel[n - 1].x
            /\ mChebyshevPositionsM1 = xAccel[n].x

\* what the code does instead: the acceleration phase changes neither the
\* positions nor the history buffers
C10_AccelerationWritesNothing ==
    /\ (Len(xSweep) = Len(xAccel) /\ ~(Running /\ Current.kind = "Chebyshev")) =>
           \A n \in DOMAIN xAccel : xAccel[n].x = xSweep[n]
    /\ pc = "sync" => <<mChebyshevPositionsM2, mChebyshevPositionsM1>> = chebAtCall

\* C11: with acceleration, the positions after the acceleration phase of
\* iterations 0 and 1 are the positions the sweep of that iteration left, for
\* every vertex, and no thread of those two phases changes a position.
C11_PassThrough ==
    /\ (Len(xSweep) = Len(xAccel) /\ ~(Running /\ Current.kind = "Chebyshev")) =>
           \A n \in DOMAIN xAccel : n <= 2 => xAccel[n].x = xSweep[n]
    /\ (Running /\ Current.kind = "Chebyshev" /\ Current.k < 2 /\ taskDone # {}) =>
           X = xSweep[Len(xSweep)]

\* the acceleration phase of iteration 1 is over, after a sweep that moved vertices
C11_Witness ==
    /\ bUseChebyshevAcceleration /\ pc = "sync"
    /\ Len(xAccel) = 2 /\ Len(xSweep) = 2
    /\ xSweep[2] # xSweep[1]
    /\ xAccel[2].x = X

\* the Chebyshev operations of substep s enqueued by a call, by iteration
OmegaOf(ops, s, k) ==
    LET n == CHOOSE m \in DOMAIN ops :
                 ops[m].kind = "Chebyshev" /\ ops[m].s = s /\ ops[m].k = k
    IN  ops[n].omega

\* C12: in every substep the weight of iteration 0 is 1, that of iteration 1 is
\* 2 / (2 - rho^2), that of iteration k >= 2 is 4 / (4 - rho^2 omega_{k-1}) with
\* omega_{k-1} the weight of the previous iteration of the same substep, and the
\* acceleration phase of iteration k runs with the weight of iteration k.
C12_OmegaSchedule ==
    /\ [][(pc = "entered" /\ pc' = "sync") =>
            LET a == args.rho[1] * args.rho[1]
                b == args.rho[2] * args.rho[2]
            IN  \A n \in ChebyshevOps(stream') :
                    LET op == stream'[n]
                        w == op.omega
                    IN  /\ op.k = 0 => w[1] = w[2]
                        /\ op.k = 1 => w[1] * (2 * b - a) = 2 * b * w[2]
                        /\ op.k >= 2 =>
                              LET v == OmegaOf(stream', op.s, op.k - 1)
                              IN  w[1] * (4 * b * v[2] - a * v[1]) = 4 * b * v[2] * w[2]]_vars
    /\ [][\A n \in DOMAIN xAccel' :
             (n \notin DOMAIN xAccel \/ xAccel'[n] # xAccel[n]) =>
                 (Running /\ Current.kind = "Chebyshev" /\ Current.k = n - 1
                    /\ xAccel'[n].omega = Current.omega)]_vars

\* the acceleration phase of iteration 2 has run with a weight above 1
C12_Witness ==
    /\ bUseChebyshevAcceleration
    /\ Len(xAccel) = 3
    /\ xAccel[1].omega = <<1, 1>>
    /\ xAccel[2].omega = <<8, 7>>
    /\ xAccel[3].omega = <<14, 13>>

\* C13: a call with zero outer iterations enqueues and runs no vertex solve and
\* no acceleration phase, and only threads of the initial guess change a
\* position: after each substep the positions are those of its initial guess.
C13_ZeroIterations ==
    /\ []((pc \in {"sync", "idle"} /\ called = "Step" /\ lastCall.iterations = 0) =>
            /\ \A n \in DOMAIN stream : stream[n].kind \notin {"Bcd", "Chebyshev"}
            /\ \A n \in DOMAIN log : Kind(log[n]) \notin {"Bcd", "Chebyshev"}
            /\ taskVal = <<>>
            /\ (Running /\ Current.kind # "InitialGuess") => X = xAtLaunch)
    /\ [][(pc = "sync" /\ lastCall.iterations = 0 /\ X' # X) =>
             (Running /\ Current.kind = "InitialGuess")]_vars

\* a call with zero iterations and two substeps has returned, vertices moved
C13_Witness ==
    /\ pc = "idle" /\ called = "Step" /\ lastCall.iterations = 0
    /\ lastCall.substeps = 2 /\ mPartitions # <<>>
    /\ X # Xin

\* the thread that finishes in a step of the running operation
Finishes(t) ==
    /\ Running /\ t \in Threads(Current) \ taskDone
    /\ \/ t \in taskDone'
       \/ stream' # stream /\ taskDone \cup {t} = Threads(Current)

\* C14: the velocity update of a substep runs with sdt = dt / substeps, and its
\* thread for a vertex stores (x - xt) / sdt, x the position and xt the
\* snapshot of that vertex, changing neither; once the phase is over every
\* velocity is (x - xt) / sdt.
C14_VelocityUpdate ==
    /\ [][(pc = "entered" /\ pc' = "sync") =>
            \A n \in DOMAIN stream' :
                stream'[n].kind = "IntegrateVelocity" =>
                    stream'[n].dt * args.substeps = args.dt]_vars
    /\ [][\A t \in 1..nVertices :
             (Running /\ Current.kind = "IntegrateVelocity" /\ Finishes(t)) =>
                 /\ mVelocities'[t] =
                        [d \in Axes |-> (X[t][d] - mPositionsAtT[t][d]) \div Current.dt]
                 /\ \A u \in 1..nVertices : u # t => mVelocities'[u] = mVelocities[u]
                 /\ UNCHANGED <<X, mPositionsAtT>>]_vars
    /\ []((pc \in {"sync", "idle"} /\ called = "Step" /\ log # <<>>
             /\ Kind(log[Len(log)]) = "IntegrateVelocity") =>
            \E dt \in DtInputs :
                \A i \in 1..nVertices :
                    mVelocities[i] = [d \in Axes |->
                        (X[i][d] - mPositionsAtT[i][d]) \div (dt \div lastCall.substeps)])

\* the velocity update of the first of two substeps is over and vertices move
C14_Witness ==
    /\ pc = "sync" /\ lastCall.substeps = 2
    /\ log # <<>> /\ log[Len(log)] = <<"IntegrateVelocity", 0, 0, 0, 0>>
    /\ mVelocities # Constant(nVertices, Zero3)
    /\ X # mPositionsAtT

\* determinant of the Hessian assembled for vertex i by a launch with dt, dt2, kD
HessianDeterminant(i, dt, dt2, kD) ==
    LET h == ReadAt(mMass, i) \div dt2
             + ((dt + kD) \div dt) * SumHessian(IncidentEntries(i))
    IN  h * h * h

\* C15: the threshold a launch tests against is the configured one; a thread
\* whose vertex has a Hessian determinant below it ends without changing any
\* position, a thread whose determinant is not below it writes its solution to
\* its own vertex; neither stops the launch, and the call returns normally.
C15_DegenerateHessianSkip ==
    /\ [][(pc = "entered" /\ pc' = "sync") =>
            \A n \in DOMAIN stream' : stream'[n].detHZero = mDetHZero]_vars
    /\ [][\A t \in 1..nVertices :
             (Running /\ Current.kind = "Bcd" /\ t \in DOMAIN taskVal /\ Finishes(t)) =>
                 LET i == LaunchVertices(Current)[t]
                     det == HessianDeterminant(i, Current.dt, Current.dt2, Current.kD)
                 IN  /\ det < mDetHZero => X' = X
                     /\ (det >= mDetHZero /\ i + 1 \in DOMAIN X) =>
                            X' = [X EXCEPT ![i + 1] = taskVal[t].x]
                     /\ pc' = "sync"
                     /\ UNCHANGED <<result, mDetHZero>>]_vars
    /\ []((pc = "idle" /\ called = "Step") => (result = "ok" /\ stream = <<>>))

\* in a group of two, the thread of a vertex below the threshold has ended
\* without a write while the other holds a solution that moves its vertex
C15_Witness ==
    /\ Running /\ Current.kind = "Bcd" /\ PartitionOK
    /\ mDetHZero # DefaultDetHZero
    /\ \E t, u \in Threads(Current) :
          /\ t # u
          /\ u \in taskDone /\ X = xAtLaunch
          /\ HessianDeterminant(LaunchVertices(Current)[u], Current.dt, Current.dt2,
                                Current.kD) < mDetHZero
          /\ t \in DOMAIN taskVal /\ taskVal[t].solved
          /\ taskVal[t].x # PosAt(X, LaunchVertices(Current)[t])

\* C16: Build with more simplices than allocated boxes, and DetectOverlaps
\* with more query simplices than allocated boxes, end in invalid-argument
\* having started no device algorithm and changed no buffer; with a count of
\* at most the allocated number neither ends in invalid-argument.
C16_CapacityChecked ==
    /\ [][nBvhCalls' # nBvhCalls =>
            /\ bvhCalled' \in {"Build", "DetectOverlaps"}
            /\ (bvhResult' = "invalid_argument") <=> (bvhCount' > nPrimitives)
            /\ bvhCount' > nPrimitives =>
                   /\ nLaunches' = nLaunches
                   /\ UNCHANGED <<simplex, morton, boxB, boxE, overlaps>>
            /\ bvhCount' <= nPrimitives => nLaunches' > nLaunches]_vars
    /\ [](Len(simplex) = nPrimitives /\ Cardinality(overlaps) <= nOverlaps)

\* a query with too many simplices was refused on an object that had been
\* built, with the sort exchanging its two boxes
C16_Witness ==
    /\ bvhCalled = "DetectOverlaps" /\ bvhResult = "invalid_argument"
    /\ bvhCount = nPrimitives + 1
    /\ nLaunches = 4
    /\ simplex = <<1, 0>>

\* C17: right after a successful setter call the getter of the quantity
\* returns the value written, for partitions group by group and vertex by
\* vertex in the order given; a setter call leaves what the getters of the
\* other quantities return as it was.
C17_SetGetRoundTrip ==
    [][(nSetCalls' # nSetCalls /\ result' = "ok") =>
          /\ \A A \in VelocityInputs :
                 (called' = "SetVelocities" /\ SetVelocities(A)) => GetVelocity' = A
          /\ \A A \in AccelerationInputs :
                 (called' = "SetExternalAcceleration" /\ SetExternalAcceleration(A)) =>
                     GetExternalAcceleration' = A
          /\ \A A \in MassInputs : (called' = "SetMass" /\ SetMass(A)) => GetMass' = A
          /\ \A A \in GradientInputs :
                 (called' = "SetShapeFunctionGradients" /\ SetShapeFunctionGradients(A)) =>
                     GetShapeFunctionGradients' = A
          /\ \A A \in LameInputs :
                 (called' = "SetLameCoefficients" /\ SetLameCoefficients(A)) =>
                     GetLameCoefficients' = A
          /\ \A P \in PartitionInputs :
                 (called' = "SetVertexPartitions" /\ SetVertexPartitions(P)) =>
                     /\ Len(GetPartitions') = Len(P)
                     /\ \A g \in DOMAIN P : GetPartitions'[g] = P[g]
          /\ called' # "SetVelocities" => GetVelocity' = GetVelocity
          /\ called' # "SetExternalAcceleration" =>
                 GetExternalAcceleration' = GetExternalAcceleration
          /\ called' # "SetMass" => GetMass' = GetMass
          /\ called' # "SetShapeFunctionGradients" =>
                 GetShapeFunctionGradients' = GetShapeFunctionGradients
          /\ called' # "SetLameCoefficients" => GetLameCoefficients' = GetLameCoefficients
          /\ called' # "SetVertexPartitions" => GetPartitions' = GetPartitions]_vars

\* new partitions are returned as given, and the Lame coefficients set before
\* are still returned
C17_Witness ==
    /\ called = "SetVertexPartitions" /\ result = "ok" /\ pc = "idle"
    /\ GetPartitions = SharingPartitions
    /\ GetLameCoefficients = MeshLameCoefficients
    /\ GetExternalAcceleration = Constant(nVertices, Gravity)

\* the integrator as the test arranges it, with the default threshold
Arranged ==
    /\ mExternalAcceleration = Constant(nVertices, Gravity)
    /\ mQuadratureWeights = MeshQuadratureWeights
    /\ mShapeFunctionGradients = MeshShapeFunctionGradients
    /\ mLameCoefficients = MeshLameCoefficients
    /\ mVertexTetrahedronPrefix = MeshPrefix
    /\ mVertexTetrahedronNeighbours = MeshNeighbours
    /\ mVertexTetrahedronLocalVertexIndices = MeshLocal
    /\ mPartitions = ColouredPartitions
    /\ mDetHZero = DefaultDetHZero

StepFrame ==
    pc \in {"entered", "sync"} =>
        /\ UNCHANGED <<material, adjacency, mPartitions, collisions>>
        /\ (mVelocities' # mVelocities) =>
               /\ Running
               /\ Current.kind = "IntegrateVelocity"
               /\ \E t \in (Threads(Current) \ taskDone) :
                      /\ Finishes(t)
                      /\ \A u \in 1..nVertices :
                             (u # t) => (mVelocities'[u] = mVelocities[u])
        /\ (mPositionsAtT' # mPositionsAtT) =>
               (Running /\ Current.kind = "CopyPositions")

\* C19: while a Step call runs, the material buffers, the adjacency and the
\* partitions do not change; the velocity buffer changes only by a thread of
\* the velocity update, at the vertex of that thread; the snapshot xt changes
\* only by the copy at the start of a substep.
C19_StepFrame ==
    [][StepFrame]_vars

\* the velocity update of a call with set material is under way
C19_Witness ==
    /\ pc = "sync" /\ Running /\ Current.kind = "IntegrateVelocity"
    /\ taskDone # {}
    /\ mVelocities # mVelocitiesAtT
    /\ mLameCoefficients = MeshLameCoefficients
    /\ mPositionsAtT # X

\* C20 (as stated): the weight restarts at 1 with iteration 0 of every substep,
\* and the history the update of an iteration k >= 2 reads is what the
\* acceleration phases of iterations k-2 and k-1 of the same substep wrote.
C20_HistoryFromSameSubstep ==
    /\ (Running /\ Current.kind = "Chebyshev" /\ Current.k = 0) =>
           Current.omega = <<1, 1>>
    /\ (Running /\ Current.kind = "Chebyshev" /\ Current.k >= 2 /\ taskDone = {}) =>
           /\ Len(xAccel) = Current.k
           /\ mChebyshevPositionsM2 = xAccel[Current.k - 1].x
           /\ mChebyshevPositionsM1 = xAccel[Current.k].x

\* what the code does instead: the history buffers hold at all times what
\* they held after construction
C20_HistoryNeverWritten ==
    \E junk \in UninitValues :
        /\ mChebyshevPositionsM2 = Constant(nVertices, [d \in Axes |-> junk])
        /\ mChebyshevPositionsM1 = Constant(nVertices, [d \in Axes |-> junk])

\* C21: in the initial-guess phase of a substep the current velocities are
\* those the substep started with (left by the preceding substep, set by
\* SetVelocities, or the zero of construction) and the previous velocities
\* are those the preceding substep started with, zero in the first substep
\* after construction; the previous velocities change only by the copy that
\* comes right before the velocity update.
C21_VelocityLag ==
    /\ [][(mVelocitiesAtT' # mVelocitiesAtT) =>
              (Running /\ Current.kind = "CopyVelocities")]_vars
    /\ []((Running /\ Current.kind = "InitialGuess") =>
              /\ vStart # <<>>
              /\ mVelocities = vStart[Len(vStart)]
              /\ mVelocitiesAtT = IF Len(vStart) = 1
                                  THEN Constant(nVertices, Zero3)
                                  ELSE vStart[Len(vStart) - 1])
    /\ [](\A n \in DOMAIN stream :
              (stream[n].kind = "CopyVelocities" /\ stream[n].d = Dims) =>
                  /\ n < Len(stream)
                  /\ stream[n + 1].kind = "IntegrateVelocity"
                  /\ stream[n + 1].s = stream[n].s)

\* the second substep of a second Step call: the previous velocities are
\* those the first call left, with which the second call started
C21_Witness ==
    /\ Running /\ Current.kind = "InitialGuess" /\ taskDone # {}
    /\ called = "Step" /\ nSteps = MaxSteps
    /\ Len(vStart) = 3
    /\ vStart[1] = Constant(nVertices, Zero3)
    /\ vStart[2] # vStart[1]
    /\ mVelocitiesAtT = vStart[2]
    /\ mVelocities # mVelocitiesAtT

\* the slots of the input and those the constructor has visited
Slots == {sl \in (1..Len(meshC)) \X (1..kNodes(element)) : TRUE}
Visited ==
    {sl \in Slots : sl[1] < meshCell \/ (sl[1] = meshCell /\ sl[2] < meshNode)}
VisitOrder(sl) == (sl[1] - 1) * kNodes(element) + sl[2]
SlotN(sl) == AffineN(element, element.Coordinates[sl[2]])
SlotKey(sl) == NodalKey(meshC[sl[1]], SortOrder(meshC[sl[1]]), SlotN(sl))
\* the cell vertices with a non-zero weight, each with its weight
Signature(sl) ==
    {<<meshC[sl[1]][j], SlotN(sl)[j]>> :
        j \in {l \in DOMAIN meshC[sl[1]] : SlotN(sl)[l][1] # 0}}
NodeOf(sl) == E[sl[1]][sl[2]]
FirstVisit(n) == FirstOf({VisitOrder(sl) : sl \in {v \in Visited : NodeOf(v) = n}})

\* C22: two visited slots hold the same node exactly if the same vertices
\* carry the same non-zero weights, however the cells list their vertices,
\* which is when their keys compare equal; the nodes are numbered from 0
\* without gaps in the order of their first visit, there is one node per
\* distinct key, the finished E indexes into X, and operator< is a strict
\* order under which two keys are unordered exactly if they are equal.
C22_NodeSharing ==
    meshPc \in {"loop", "done"} =>
        /\ \A a, b \in Visited :
               /\ (NodeOf(a) = NodeOf(b)) <=> (Signature(a) = Signature(b))
               /\ NodalKeyEq(SlotKey(a), SlotKey(b)) <=> (Signature(a) = Signature(b))
        /\ {NodeOf(sl) : sl \in Visited} = 0..(Len(nodes) - 1)
        /\ \A n, m \in 0..(Len(nodes) - 1) : (n < m) <=> (FirstVisit(n) < FirstVisit(m))
        /\ Len(nodes) = Cardinality({Signature(sl) : sl \in Visited})
        /\ meshPc = "done" =>
               /\ Visited = Slots
               /\ meshX = nodes
               /\ \A sl \in Slots : NodeOf(sl) \in 0..(Len(meshX) - 1)
        /\ (meshCell = 1 /\ meshNode = 1) =>
               LET K == {SlotKey(sl) : sl \in Slots}
               IN  /\ \A a, b \in K :
                          /\ NodalKeyLess(a, b) => ~NodalKeyLess(b, a)
                          /\ (~NodalKeyLess(a, b) /\ ~NodalKeyLess(b, a)) <=>
                                 NodalKeyEq(a, b)
                   /\ \A a, b, k \in K :
                          (NodalKeyLess(a, b) /\ NodalKeyLess(b, k)) => NodalKeyLess(a, k)

\* two quadratic triangles listing their common edge in opposite orders share
\* its three nodes
C22_Witness ==
    /\ meshPc = "done" /\ element = Triangle2
    /\ meshC = << <<0, 1, 2>>, <<2, 1, 3>> >>
    /\ E[1] = <<0, 1, 2, 3, 4, 5>>
    /\ Cardinality(Range(E[1]) \cap Range(E[2])) = 3
    /\ Len(meshX) = 9

====
